---------------------------- MODULE Spec2Model ----------------------------
(***************************************************************************)
(* A model of geotools (src/src/geotools/funcs.py, cli.py): the raster     *)
(* window extractor (cutiff and its two callers), the percentile stretch   *)
(* quantizer (gray_process) and the PNG conversion built on it (tiff2png,  *)
(* process_tiff_conversion), the coordinate reprojector                    *)
(* (transform_projected_to_geographic, transform_point_to_geographic and   *)
(* its two callers), the band statistics (_get_band_statistics), the       *)
(* inspection (tiffinfo, analyze_tiff_comprehensive) and the distance and  *)
(* area estimator (calculate_projected_distance_and_area).                 *)
(*                                                                         *)
(* The program is a one-shot batch tool: a run applies one operation to    *)
(* the files it is given.  The state is the file system, the invocation    *)
(* (call) and what it returned or raised (ret).                            *)
(*                                                                         *)
(* Numbers.  Sizes, offsets and pixel values are integers.  Geotransform   *)
(* coefficients, projected and geographic coordinates, spans and areas are *)
(* float64 values, computed operation by operation as the code computes    *)
(* them.  Percentiles of integer samples at an integer percent are         *)
(* multiples of 1 / (100 * ...), kept as exact fractions (see              *)
(* gray_process).                                                          *)
(***************************************************************************)
EXTENDS Integers, Sequences, FiniteSets

VARIABLES fs, call, ret

vars == <<fs, call, ret>>

(***************************************************************************)
(* Bounds of the model.                                                    *)
(***************************************************************************)
\* Largest raster width and height; crop offsets and sizes range with it.
MaxSize == 2
\* Largest number of bands of a raster.
MaxBands == 2

(***************************************************************************)
(* Optional values (Python's None).                                        *)
(***************************************************************************)
None == [some |-> FALSE]

Some(v) == [some |-> TRUE, v |-> v]

\* abs
Abs(x) == IF x < 0 THEN -x ELSE x

Max(a, b) == IF a >= b THEN a ELSE b

Min(a, b) == IF a <= b THEN a ELSE b

(***************************************************************************)
(* float64 arithmetic.                                                     *)
(*                                                                         *)
(* numpy and GDAL compute in IEEE 754 binary64: every sum, difference,     *)
(* product and quotient is the exact result rounded to the nearest value   *)
(* of 53 significant bits, ties to the even one.  A float64 is the record  *)
(* [neg, man, exp] of value (-1)^neg * man * 2^exp, with man odd and of at *)
(* most 53 bits, or man empty for zero: each value has one record.  A      *)
(* mantissa does not fit a machine integer: naturals are little-endian     *)
(* sequences of digits in base 2^14 with no leading zero digit, <<>> being *)
(* 0.  The values of the model stay far from overflow and underflow, and   *)
(* no result shows the sign of a zero.                                     *)
(***************************************************************************)
Limb == 2^14

\* The digits of sequence a from position i on plus carry c, each brought
\* into 0..Limb-1 (a borrow is a negative carry).
RECURSIVE Carried(_, _, _)
Carried(a, i, c) ==
    IF i > Len(a)
    THEN IF c = 0 THEN <<>> ELSE <<c % Limb>> \o Carried(a, i, c \div Limb)
    ELSE <<(a[i] + c) % Limb>> \o Carried(a, i + 1, (a[i] + c) \div Limb)

RECURSIVE Trimmed(_)
Trimmed(a) ==
    IF a # <<>> /\ a[Len(a)] = 0 THEN Trimmed(SubSeq(a, 1, Len(a) - 1)) ELSE a

Digit(a, i) == IF i >= 1 /\ i <= Len(a) THEN a[i] ELSE 0

\* The natural n as digits, and back.
RECURSIVE BigOf(_)
BigOf(n) == IF n = 0 THEN <<>> ELSE <<n % Limb>> \o BigOf(n \div Limb)

RECURSIVE BigInt(_)
BigInt(a) == IF a = <<>> THEN 0 ELSE a[1] + Limb * BigInt(Tail(a))

BigAdd(a, b) == Carried([i \in 1..Max(Len(a), Len(b)) |-> Digit(a, i) + Digit(b, i)], 1, 0)

\* a - b for a >= b.
BigSub(a, b) == Trimmed(Carried([i \in 1..Len(a) |-> a[i] - Digit(b, i)], 1, 0))

\* a * k for a digit k.
BigTimes(a, k) == Trimmed(Carried([i \in 1..Len(a) |-> a[i] * k], 1, 0))

RECURSIVE BigMul(_, _)
BigMul(a, b) ==
    IF a = <<>> \/ b = <<>> THEN <<>>
    ELSE BigAdd(BigTimes(b, a[1]),
                IF Len(a) = 1 THEN <<>> ELSE <<0>> \o BigMul(Tail(a), b))

RECURSIVE CompareFrom(_, _, _)
CompareFrom(a, b, i) ==
    IF i = 0 THEN 0
    ELSE IF a[i] > b[i] THEN 1
    ELSE IF a[i] < b[i] THEN -1
    ELSE CompareFrom(a, b, i - 1)

\* 1, 0 or -1 as a > b, a = b or a < b.
BigCompare(a, b) ==
    IF Len(a) > Len(b) THEN 1
    ELSE IF Len(a) < Len(b) THEN -1
    ELSE CompareFrom(a, b, Len(a))

\* a * 2^k
BigShl(a, k) ==
    IF a = <<>> THEN <<>>
    ELSE [i \in 1..(k \div 14) |-> 0] \o BigTimes(a, 2^(k % 14))

\* a \div 2^k
BigShr(a, k) ==
    LET q == k \div 14
        r == k % 14
        n == Len(a) - q
    IN  IF n <= 0 THEN <<>>
        ELSE Trimmed([i \in 1..n |->
                 (a[q + i] \div 2^r) + (Digit(a, q + i + 1) % 2^r) * 2^(14 - r)])

RECURSIVE Bits(_)
Bits(n) == IF n = 0 THEN 0 ELSE 1 + Bits(n \div 2)

\* The number of significant bits of a.
BigBits(a) == IF a = <<>> THEN 0 ELSE 14 * (Len(a) - 1) + Bits(a[Len(a)])

\* q or q + 1, as half is negative, or positive, or zero with q odd.
RoundedUp(q, half) ==
    IF half > 0 \/ (half = 0 /\ Digit(q, 1) % 2 = 1) THEN BigAdd(q, <<1>>) ELSE q

\* a / 2^k rounded to the nearest natural, ties to the even one, given
\* q = a \div 2^k: by the comparison of twice the rest with 2^k.
RoundedFrom(a, k, q) ==
    RoundedUp(q, BigCompare(BigShl(BigSub(a, BigShl(q, k)), 1), BigShl(<<1>>, k)))

RoundedShr(a, k) == RoundedFrom(a, k, BigShr(a, k))

\* The number of zero bits a natural other than 0 ends with.
RECURSIVE LowZeros(_)
LowZeros(n) == IF n % 2 = 1 THEN 0 ELSE 1 + LowZeros(n \div 2)

RECURSIVE BigLowZeros(_)
BigLowZeros(a) == IF a[1] # 0 THEN LowZeros(a[1]) ELSE 14 + BigLowZeros(Tail(a))

Float64Zero == [neg |-> FALSE, man |-> <<>>, exp |-> 0]

\* The record of (-1)^neg * a * 2^e for a of 1 to 53 significant bits that
\* ends with the given number of zero bits.
Float64Shortest(neg, a, e, zeros) ==
    [neg |-> neg, man |-> IF zeros = 0 THEN a ELSE BigShr(a, zeros), exp |-> e + zeros]

Float64Exact(neg, a, e) == Float64Shortest(neg, a, e, BigLowZeros(a))

\* (-1)^neg * a * 2^e with the last drop bits of a rounded away.
Float64Rounded(neg, a, e, drop) ==
    Float64Exact(neg, IF drop > 0 THEN RoundedShr(a, drop) ELSE a, e + Max(drop, 0))

\* The float64 nearest to (-1)^neg * a * 2^e: the rounding every operation
\* ends with.
Float64Of(neg, a, e) ==
    IF a = <<>> THEN Float64Zero ELSE Float64Rounded(neg, a, e, BigBits(a) - 53)

\* float(n) of an integer n (exact: n is below 2^53).
Float64(n) == IF n = 0 THEN Float64Zero ELSE Float64Exact(n < 0, BigOf(Abs(n)), 0)

Float64Neg(x) == IF x.man = <<>> THEN x ELSE [x EXCEPT !.neg = ~x.neg]

Float64Abs(x) == [x EXCEPT !.neg = FALSE]

Float64Sign(x) == IF x.man = <<>> THEN 0 ELSE IF x.neg THEN -1 ELSE 1

\* ((-1)^x_neg * a + (-1)^y_neg * b) * 2^e, given c, the comparison of a
\* with b: the sum, or the difference under the sign of the larger.
Float64SumBy(x_neg, a, y_neg, b, e, c) ==
    Float64Of(IF x_neg = y_neg \/ c > 0 THEN x_neg ELSE y_neg,
              IF x_neg = y_neg THEN BigAdd(a, b)
              ELSE IF c > 0 THEN BigSub(a, b) ELSE BigSub(b, a),
              e)

Float64SumOf(x_neg, a, y_neg, b, e) ==
    Float64SumBy(x_neg, a, y_neg, b, e, BigCompare(a, b))

\* x + y of two nonzero values, both brought to the exponent e of the smaller.
Float64Sum(x, y, e) ==
    Float64SumOf(x.neg, BigShl(x.man, x.exp - e), y.neg, BigShl(y.man, y.exp - e), e)

\* x + y
Float64Add(x, y) ==
    IF x.man = <<>> THEN y
    ELSE IF y.man = <<>> THEN x
    ELSE Float64Sum(x, y, Min(x.exp, y.exp))

\* x - y
Float64Sub(x, y) == Float64Add(x, Float64Neg(y))

\* x * y
Float64Mul(x, y) == Float64Of(x.neg # y.neg, BigMul(x.man, y.man), x.exp + y.exp)

RECURSIVE DigitDown(_, _, _)
DigitDown(t, d, q) ==
    IF BigCompare(BigTimes(d, q), t) > 0 THEN DigitDown(t, d, q - 1) ELSE q

\* t \div d for t < d * Limb and d of four digits with its top bit set: the
\* estimate from the leading digits is never below the digit.
QuotientDigit(t, d) ==
    DigitDown(t, d, Min(Limb - 1, (Digit(t, 5) * Limb + Digit(t, 4)) \div d[4]))

\* Long division of remainder r by d, one digit a step: q is the next digit
\* of the quotient, of t = r * Limb.
RECURSIVE LongDivision(_, _, _, _)
DivisionStep(t, d, digits, left, q) ==
    LongDivision(BigSub(t, BigTimes(d, q)), d, <<q>> \o digits, left - 1)

DivisionOf(t, d, digits, left) == DivisionStep(t, d, digits, left, QuotientDigit(t, d))

LongDivision(r, d, digits, left) ==
    IF left = 0 THEN [quotient |-> Trimmed(digits), exact |-> r = <<>>]
    ELSE DivisionOf(IF r = <<>> THEN <<>> ELSE <<0>> \o r, d, digits, left)

\* The quotient bits and one more, set when the division left a remainder,
\* rounded.
Float64QuotientOf(neg, division, e) ==
    Float64Of(neg,
              BigAdd(BigShl(division.quotient, 1), IF division.exact THEN <<>> ELSE <<1>>),
              e)

\* n / d * 2^e for n and d of 56 bits: 57 or 58 quotient bits, the first one
\* set when n >= d.
Float64QuotientFrom(neg, n, d, e, first) ==
    Float64QuotientOf(neg,
                      LongDivision(IF first THEN BigSub(n, d) ELSE n, d,
                                   <<IF first THEN 1 ELSE 0>>, 4),
                      e - 57)

Float64Quotient(neg, n, d, e) ==
    Float64QuotientFrom(neg, n, d, e, BigCompare(n, d) >= 0)

\* x / y for y # 0: of the mantissas widened to 56 bits.
Float64Div(x, y) ==
    IF x.man = <<>> THEN Float64Zero
    ELSE LET sx == 56 - BigBits(x.man)
             sy == 56 - BigBits(y.man)
         IN  Float64Quotient(x.neg # y.neg, BigShl(x.man, sx), BigShl(y.man, sy),
                             (x.exp - sx) - (y.exp - sy))

\* The comparison of two values of sign s whose leading bits are at tx and
\* ty: by the place of the leading bit, then by the mantissas brought to one
\* exponent e.
Float64CompareAt(x, y, s, tx, ty, e) ==
    s * (IF tx > ty THEN 1
         ELSE IF tx < ty THEN -1
         ELSE BigCompare(BigShl(x.man, x.exp - e), BigShl(y.man, y.exp - e)))

Float64CompareSigns(x, y, sx, sy) ==
    IF sx # sy THEN (IF sx > sy THEN 1 ELSE -1)
    ELSE IF sx = 0 THEN 0
    ELSE Float64CompareAt(x, y, sx, x.exp + BigBits(x.man), y.exp + BigBits(y.man),
                          Min(x.exp, y.exp))

\* 1, 0 or -1 as x > y, x = y or x < y.
Float64Compare(x, y) == Float64CompareSigns(x, y, Float64Sign(x), Float64Sign(y))

Float64Less(x, y) == Float64Compare(x, y) < 0

Float64LessEq(x, y) == Float64Compare(x, y) <= 0

\* The integer part of x, towards zero (int(x), astype of an integer type).
Float64Trunc(x) ==
    (IF x.neg THEN -1 ELSE 1)
       * BigInt(IF x.exp >= 0 THEN BigShl(x.man, x.exp) ELSE BigShr(x.man, -x.exp))

(***************************************************************************)
(* Rasters and the file system.                                            *)
(***************************************************************************)
\* Geotransforms in whole numbers: north-up, the spec's scenarios, skewed
\* (rotated) ones, and ones with negative or positive pixel sizes.
GeoTransforms ==
    { <<0, 1, 0, 0, 0, -1>>,
      <<3, 2, 1, 7, -1, -2>>,
      <<0, 1, 2, 0, 3, 1>>,
      <<-4, -1, 0, 5, 0, 1>> }

\* Geotransforms in tenths, none of them a binary fraction: pixels of 0.1 by
\* -0.1 at the origin, and a skewed one of 0.2 by -0.2 at (0.3, 0.7).
FractionalGeoTransforms ==
    { <<0, 1, 0, 0, 0, -1>>,
      <<3, 2, 1, 7, -1, -2>> }

\* Range of a GDAL pixel data type.
TypeMin(dtype) == IF dtype = "Byte" THEN 0 ELSE -32768

TypeMax(dtype) == IF dtype = "Byte" THEN 255 ELSE 32767

\* Band.WriteArray converts each value to the band's data type (clamping).
CastTo(dtype, v) ==
    IF v < TypeMin(dtype) THEN TypeMin(dtype)
    ELSE IF v > TypeMax(dtype) THEN TypeMax(dtype)
    ELSE v

\* Pixel data of a source raster: data[b][row][col] (1-based), every pixel of
\* every band holding a different value.
SourceData(w, h, n) ==
    [b \in 1..n |-> [r \in 1..h |-> [c \in 1..w |-> (b - 1) * 50 + (r - 1) * 10 + (c - 1)]]]

\* The six float64 coefficients of a geotransform given in whole numbers, and
\* in tenths (the float64 nearest to each decimal).
Coefficients(gt) == [i \in DOMAIN gt |-> Float64(gt[i])]

Tenths(gt) == [i \in DOMAIN gt |-> Float64Div(Float64(gt[i]), Float64(10))]

\* The geotransforms the reports are computed on: six float64 coefficients,
\* whole numbers and tenths.
Float64GeoTransforms ==
    {Coefficients(gt) : gt \in GeoTransforms} \cup {Tenths(gt) : gt \in FractionalGeoTransforms}

\* A raster file as created by this program or by a plain writer: no nodata
\* value, and no statistics stored in the metadata of its bands.  The
\* geotransform is six float64 coefficients.
RasterWith(w, h, n, dtype, gt, proj, data) ==
    [kind |-> "raster", width |-> w, height |-> h, count |-> n, dtype |-> dtype,
     gt |-> gt, proj |-> proj, data |-> data,
     nodata |-> None, cached |-> [b \in 1..n |-> None]]

\* The raster whose geotransform is given in whole numbers.
Raster(w, h, n, dtype, gt, proj, data) ==
    RasterWith(w, h, n, dtype, Coefficients(gt), proj, data)

NoFile == [kind |-> "absent"]

\* A file that exists and is no raster.
OtherFile == [kind |-> "other"]

\* The elements of a 2-dimensional array of h rows and w columns in ndarray
\* order, row after row (gray_array.flat, and the order numpy.percentile
\* sorts from).
Flat(plane, w, h) ==
    [k \in 1..(w * h) |-> plane[((k - 1) \div w) + 1][((k - 1) % w) + 1]]

RECURSIVE SumSeq(_)
SumSeq(q) == IF q = <<>> THEN 0 ELSE Head(q) + SumSeq(Tail(q))

\* A raster file cut short: the header opens, the pixel data cannot be read.
Truncated(r) == [r EXCEPT !.data = <<>>]

\* A PNG image of one 8-bit channel.
PngFile(w, h, pixels) == [kind |-> "png", width |-> w, height |-> h, pixels |-> pixels]

Paths == {"in.tif", "out.tif", "out2.tif", "bad.tif", "missing.tif", "trunc.tif", "out.png"}

\* Byte rasters in PROJ_LIN under every geotransform, and Int16 rasters in
\* PROJ_ROT under the skewed one.
SourceRasters ==
    { Raster(w, h, n, "Byte", gt, "PROJ_LIN", SourceData(w, h, n)) :
        w \in 1..MaxSize, h \in 1..MaxSize, n \in 1..MaxBands, gt \in GeoTransforms }
    \cup
    { Raster(w, h, n, "Int16", <<3, 2, 1, 7, -1, -2>>, "PROJ_ROT", SourceData(w, h, n)) :
        w \in 1..MaxSize, h \in 1..MaxSize, n \in 1..MaxBands }

(***************************************************************************)
(* _safe_open_dataset, _safe_read_array                                    *)
(***************************************************************************)
\* gdal.Open succeeds on a raster file only; otherwise RuntimeError.
CanOpen(f, path) == f[path].kind = "raster"

\* Dataset.ReadAsArray(xoff, yoff, xsize, ysize) reads the window or fails.
\* The array is allocated first (numpy rejects a negative size); the driver
\* skips the request of an empty window, wherever it lies, and leaves the
\* empty array; otherwise it rejects a window that is not inside the raster
\* and cannot read pixel data the file does not hold.
WindowReadable(ds, xoff, yoff, xsize, ysize) ==
    /\ xsize >= 0 /\ ysize >= 0
    /\ \/ xsize = 0
       \/ ysize = 0
       \/ /\ ds.data # <<>>
          /\ xoff >= 0 /\ yoff >= 0
          /\ xoff + xsize <= ds.width
          /\ yoff + ysize <= ds.height

\* The window of band b: rows yoff+1..yoff+ysize, columns xoff+1..xoff+xsize.
BandWindow(ds, b, xoff, yoff, xsize, ysize) ==
    [r \in 1..ysize |-> [c \in 1..xsize |-> ds.data[b][yoff + r][xoff + c]]]

\* The numpy array ReadAsArray returns: 2-dimensional (rows, cols) for a
\* single-band dataset, 3-dimensional (bands, rows, cols) otherwise.  planes
\* holds the 2-dimensional slices; a 2-dimensional array is its one plane.
_safe_read_array(ds, xoff, yoff, xsize, ysize) ==
    IF WindowReadable(ds, xoff, yoff, xsize, ysize)
    THEN [ok |-> TRUE,
          ndim |-> IF ds.count = 1 THEN 2 ELSE 3,
          planes |-> [b \in 1..ds.count |-> BandWindow(ds, b, xoff, yoff, xsize, ysize)]]
    ELSE [ok |-> FALSE, ndim |-> 0, planes |-> <<>>]

(***************************************************************************)
(* cutiff                                                                  *)
(***************************************************************************)
\* Mutant of NewGeoTransform: the origin is that of the pixel after the
\* window's first one.
NewGeoTransformNextPixel(geotransform, xoff, yoff) ==
    << Float64Add(geotransform[1], Float64Mul(Float64(xoff + 1), geotransform[2])),
       geotransform[2],
       geotransform[3],
       Float64Add(geotransform[4], Float64Mul(Float64(yoff + 1), geotransform[6])),
       geotransform[5],
       geotransform[6] >>

\* Mutant of NewGeoTransform: the rows are counted upwards.
NewGeoTransformYUp(geotransform, xoff, yoff) ==
    << Float64Add(geotransform[1], Float64Mul(Float64(xoff), geotransform[2])),
       geotransform[2],
       geotransform[3],
       Float64Sub(geotransform[4], Float64Mul(Float64(yoff), geotransform[6])),
       geotransform[5],
       geotransform[6] >>

\* Mutant of NewGeoTransform: the offsets are taken as 1-based.
NewGeoTransformOneBased(geotransform, xoff, yoff) ==
    << Float64Add(geotransform[1], Float64Mul(Float64(xoff - 1), geotransform[2])),
       geotransform[2],
       geotransform[3],
       Float64Add(geotransform[4], Float64Mul(Float64(yoff - 1), geotransform[6])),
       geotransform[5],
       geotransform[6] >>

\* Mutant of NewGeoTransform: a north-up geotransform is written, without
\* the skew coefficients.
NewGeoTransformNorthUp(geotransform, xoff, yoff) ==
    << Float64Add(geotransform[1], Float64Mul(Float64(xoff), geotransform[2])),
       geotransform[2],
       Float64Zero,
       Float64Add(geotransform[4], Float64Mul(Float64(yoff), geotransform[6])),
       Float64Zero,
       geotransform[6] >>

\* funcs.py 500-508: the geotransform of the crop, geotransform[0] + xoff *
\* geotransform[1] and geotransform[3] + yoff * geotransform[5] in float64.
NewGeoTransform(geotransform, xoff, yoff) ==
    << Float64Add(geotransform[1], Float64Mul(Float64(xoff), geotransform[2])),
       geotransform[2],
       geotransform[3],
       Float64Add(geotransform[4], Float64Mul(Float64(yoff), geotransform[6])),
       geotransform[5],
       geotransform[6] >>

\* Mutant of WrittenPlane: every band is written from the first plane.
WrittenPlaneFirst(array, count, i) == array.planes[1]

\* funcs.py 517-521: the array written to band i of the output (1-based).
\* A single-band source writes cut_array itself, otherwise cut_array[i - 1].
WrittenPlane(array, count, i) ==
    IF count = 1 THEN array.planes[1] ELSE array.planes[i]

\* funcs.py 511-526: the output dataset after Create, WriteArray,
\* SetGeoTransform, SetProjection.
CutOutput(ds, array, xoff, yoff, xsize, ysize) ==
    RasterWith(xsize, ysize, ds.count, ds.dtype,
               NewGeoTransform(ds.gt, xoff, yoff),
               ds.proj,
           [i \in 1..ds.count |->
               [r \in 1..ysize |->
                   [c \in 1..xsize |-> CastTo(ds.dtype, WrittenPlane(array, ds.count, i)[r][c])]]])

\* Mutant of AbortedAtOpen: the output file was created before the open.
CreatedBeforeOpen(f, output) == [f EXCEPT ![output] = OtherFile]

\* funcs.py 445, 493: the open is the first statement of tiff2png and cutiff;
\* when it raises, the file system is as it was.
AbortedAtOpen(f, output) == f

\* Mutant of AbortedAtRead: the output file was created before the read.
CreatedBeforeRead(f, output) == [f EXCEPT ![output] = OtherFile]

\* funcs.py 446, 494: the read is the second statement, before any output is
\* created (driver.Create at 512, cv2.imwrite at 462); when it raises, the
\* file system is as it was.
AbortedAtRead(f, output) == f

\* funcs.py 512-514: driver.Create makes the output dataset, or raises for
\* a size below 1 by 1 before it touches the output path.
CanCreate(xsize, ysize) == xsize >= 1 /\ ysize >= 1

\* cutiff(input_tif, output_tif, xoff, yoff, xsize, ysize) on file system f:
\* what it raised or returned, and the file system it leaves.
cutiff(f, input_tif, output_tif, xoff, yoff, xsize, ysize) ==
    IF ~CanOpen(f, input_tif)
    THEN [raised |-> TRUE, error |-> "open", value |-> None,
          fs |-> AbortedAtOpen(f, output_tif)]
    ELSE LET dataset == f[input_tif]
             cut_array == _safe_read_array(dataset, xoff, yoff, xsize, ysize)
         IN  IF ~cut_array.ok
             THEN [raised |-> TRUE, error |-> "read", value |-> None,
                   fs |-> AbortedAtRead(f, output_tif)]
             ELSE IF ~CanCreate(xsize, ysize)
             THEN [raised |-> TRUE, error |-> "create", value |-> None, fs |-> f]
             ELSE [raised |-> FALSE, error |-> "", value |-> Some(output_tif),
                   fs |-> [f EXCEPT ![output_tif] =
                              CutOutput(dataset, cut_array, xoff, yoff, xsize, ysize)]]

(***************************************************************************)
(* The CRS library (osr), as the reprojector uses it.                      *)
(***************************************************************************)
\* Projection strings of the model: none, an unparseable WKT, a local
\* coordinate system with no transform to EPSG:4326, and four usable ones.
Projections ==
    {"", "BAD_WKT", "PROJ_LOCAL", "PROJ_LIN", "PROJ_ROT", "PROJ_QUAD", "PROJ_SING"}

\* SpatialReference.ImportFromWkt raises on an empty or unparseable WKT.
ImportFromWktOK(projection) == projection \notin {"", "BAD_WKT"}

\* osr.CoordinateTransformation(source, target) raises when no transform
\* between the two systems exists.
CoordinateTransformationOK(projection) == projection # "PROJ_LOCAL"

\* Twice the abscissas on which PROJ_SING is singular: TransformPoint raises
\* on x = 0.5 and on x = 1.
SingularX2 == {Float64(1), Float64(2)}

\* The four usable projections, on the doubled float64 coordinates x2 = 2 * x
\* and y2 = 2 * y of a projected point: PROJ_LIN is affine and axis-parallel,
\* PROJ_ROT mixes the axes, PROJ_QUAD is not linear, PROJ_SING is PROJ_LIN
\* with a singular line.
Projected(projection, x2, y2) ==
    IF projection = "PROJ_ROT"
    THEN [ok |-> TRUE, lon |-> Float64Add(x2, y2), lat |-> Float64Sub(x2, y2)]
    ELSE IF projection = "PROJ_QUAD"
    THEN [ok |-> TRUE, lon |-> Float64Mul(x2, y2),
          lat |-> Float64Sub(Float64Mul(y2, y2), x2)]
    ELSE IF projection = "PROJ_SING" /\ x2 \in SingularX2
    THEN [ok |-> FALSE, lon |-> Float64Zero, lat |-> Float64Zero]
    ELSE [ok |-> TRUE,
          lon |-> Float64Sub(Float64Mul(Float64(3), x2), Float64(100)),
          lat |-> Float64Add(Float64Mul(Float64(2), y2), Float64(10))]

\* transform.TransformPoint(x, y) of the projection, on a projected point in
\* float64: whether it succeeds, and the longitude and latitude in float64.
TransformPoint(projection, x, y) ==
    Projected(projection, Float64Mul(Float64(2), x), Float64Mul(Float64(2), y))

(***************************************************************************)
(* transform_projected_to_geographic                                       *)
(***************************************************************************)
\* min() and max() of a list of whole numbers (the samples of a band).
SeqMin(s) == CHOOSE m \in {s[i] : i \in DOMAIN s} : \A i \in DOMAIN s : m <= s[i]

SeqMax(s) == CHOOSE m \in {s[i] : i \in DOMAIN s} : \A i \in DOMAIN s : m >= s[i]

\* min() and max() of a list of float64 values.
Float64Min(s) ==
    CHOOSE m \in {s[i] : i \in DOMAIN s} : \A i \in DOMAIN s : Float64LessEq(m, s[i])

Float64Max(s) ==
    CHOOSE m \in {s[i] : i \in DOMAIN s} : \A i \in DOMAIN s : Float64LessEq(s[i], m)

\* The pixel-space points the function transforms, in the order it transforms
\* them: the four corners (funcs.py 264-269, 273), then the center (width / 2,
\* height / 2) (funcs.py 295, 298, 300).
PointsPixel(width, height) ==
    << <<Float64(0), Float64(0)>>,
       <<Float64(width), Float64(0)>>,
       <<Float64(width), Float64(height)>>,
       <<Float64(0), Float64(height)>>,
       <<Float64Div(Float64(width), Float64(2)), Float64Div(Float64(height), Float64(2))>> >>

\* funcs.py 275-276, 294-299: origin + px * a + py * b in float64, the sums
\* from left to right.
PixelToProj(origin, a, b, px, py) ==
    Float64Add(Float64Add(origin, Float64Mul(px, a)), Float64Mul(py, b))

\* funcs.py 275-279, 294-300: pixel (px, py) to projected coordinates, then
\* TransformPoint.
TransformPixel(geotransform, projection, px, py) ==
    TransformPoint(projection,
                   PixelToProj(geotransform[1], geotransform[2], geotransform[3], px, py),
                   PixelToProj(geotransform[4], geotransform[5], geotransform[6], px, py))

\* funcs.py 272-280, 294-300: the points reprojected one after the other.
RECURSIVE TransformedPoints(_, _, _)
TransformedPoints(geotransform, projection, points) ==
    IF points = <<>> THEN <<>>
    ELSE <<TransformPixel(geotransform, projection, Head(points)[1], Head(points)[2])>>
         \o TransformedPoints(geotransform, projection, Tail(points))

\* Mutant of GeographicBounds: a north-up raster is assumed, west and north
\* taken from the upper-left corner, east and south from the lower-right one.
GeographicBoundsNorthUp(corners_geo) ==
    [west |-> corners_geo[1].lon, east |-> corners_geo[3].lon,
     south |-> corners_geo[3].lat, north |-> corners_geo[1].lat]

\* funcs.py 283-291
GeographicBounds(corners_geo) ==
    [west |-> Float64Min([i \in 1..4 |-> corners_geo[i].lon]),
     east |-> Float64Max([i \in 1..4 |-> corners_geo[i].lon]),
     south |-> Float64Min([i \in 1..4 |-> corners_geo[i].lat]),
     north |-> Float64Max([i \in 1..4 |-> corners_geo[i].lat])]

\* Mutant of GeographicCenter: the midpoint of the bounds.
CenterOfBounds(center_geo, bounds) ==
    Some([longitude |-> Float64Div(Float64Add(bounds.west, bounds.east), Float64(2)),
          latitude |-> Float64Div(Float64Add(bounds.south, bounds.north), Float64(2))])

\* funcs.py 300-302: the center, from what TransformPoint gave on the
\* projected center (None when it raised) and the bounds assigned so far.
GeographicCenter(center_geo, bounds) ==
    IF center_geo.ok
    THEN Some([longitude |-> center_geo.lon, latitude |-> center_geo.lat])
    ELSE None

\* funcs.py 286-302: geographic_bounds is assigned, then geographic_center.
BoundsThenCenter(bounds, center_geo) ==
    [geographic_bounds |-> Some(bounds),
     geographic_center |-> GeographicCenter(center_geo, bounds)]

\* funcs.py 272-302, given what TransformPoint gave on the four corners and
\* on the center: nothing is assigned when a corner transform raised.
BoundsAndCenter(points_geo) ==
    IF \E i \in 1..4 : ~points_geo[i].ok
    THEN [geographic_bounds |-> None, geographic_center |-> None]
    ELSE BoundsThenCenter(GeographicBounds(SubSeq(points_geo, 1, 4)), points_geo[5])

\* funcs.py 250-311.  The try block runs the CRS setup, the four corner
\* transforms, assigns geographic_bounds, then transforms the center and
\* assigns geographic_center; the except clause keeps whatever was assigned
\* when the exception was raised.  geotransform holds six float64
\* coefficients, width and height are whole numbers.
transform_projected_to_geographic(geotransform, projection, width, height) ==
    IF ~ImportFromWktOK(projection) \/ ~CoordinateTransformationOK(projection)
    THEN [geographic_bounds |-> None, geographic_center |-> None]
    ELSE BoundsAndCenter(TransformedPoints(geotransform, projection,
                                           PointsPixel(width, height)))

\* funcs.py 627-629: geographic_result = transform_projected_to_geographic(
\* geotransform, projection, width, height).  The function depends on its
\* arguments alone: its value on the geotransforms, projections and sizes of
\* the source rasters is worked out once and looked up, and worked out on the
\* spot for any other raster.
GeographicResults ==
    { [geotransform |-> gt, projection |-> proj, width |-> w, height |-> h,
       result |-> transform_projected_to_geographic(gt, proj, w, h)] :
         gt \in Float64GeoTransforms, proj \in Projections,
         w \in 1..(2 * MaxSize), h \in 1..MaxSize }

GeographicResultKnown(geotransform, projection, width, height, known) ==
    IF known = {} THEN transform_projected_to_geographic(geotransform, projection, width, height)
    ELSE (CHOOSE s \in known : TRUE).result

GeographicResult(geotransform, projection, width, height) ==
    GeographicResultKnown(geotransform, projection, width, height,
                          { s \in GeographicResults :
                              /\ s.width = width /\ s.height = height
                              /\ s.projection = projection
                              /\ s.geotransform = geotransform })

(***************************************************************************)
(* transform_point_to_geographic, projected_to_geographic, xy_to_lonlat    *)
(***************************************************************************)
\* funcs.py 331-334: the pair (lon, lat) TransformPoint returned, or None
\* when it raised.
PairOrNone(t) ==
    [raised |-> FALSE, value |-> IF t.ok THEN Some(<<t.lon, t.lat>>) ELSE None]

\* funcs.py 329-334: the pair (lon, lat), or None when the creation of the
\* transform (85-91) or TransformPoint raises; nothing is raised.  x and y
\* are whole numbers, TransformPoint takes them as float64.
transform_point_to_geographic(x, y, projection) ==
    IF ~ImportFromWktOK(projection) \/ ~CoordinateTransformationOK(projection)
    THEN [raised |-> FALSE, value |-> None]
    ELSE PairOrNone(TransformPoint(projection, Float64(x), Float64(y)))

\* funcs.py 350-353: None for a dataset without projection, with no call of
\* transform_point_to_geographic (calls counts them).
projected_to_geographic(x, y, dataset) ==
    IF dataset.proj = ""
    THEN [raised |-> FALSE, value |-> None, calls |-> 0]
    ELSE [raised |-> FALSE, value |-> transform_point_to_geographic(x, y, dataset.proj).value,
          calls |-> 1]

\* Mutant of xy_to_lonlat: None is returned where the transform failed.
xy_to_lonlat_or_none(x, y, proj_wkt) ==
    [raised |-> FALSE, error |-> "",
     value |-> IF transform_point_to_geographic(x, y, proj_wkt).value.some
               THEN transform_point_to_geographic(x, y, proj_wkt).value.v
               ELSE <<>>]

\* funcs.py 372-375: RuntimeError when the result is None, the result itself
\* otherwise.
xy_to_lonlat(x, y, proj_wkt) ==
    IF ~transform_point_to_geographic(x, y, proj_wkt).value.some
    THEN [raised |-> TRUE, error |-> "RuntimeError", value |-> <<>>]
    ELSE [raised |-> FALSE, error |-> "",
          value |-> transform_point_to_geographic(x, y, proj_wkt).value.v]

(***************************************************************************)
(* The raster driver's band statistics (Band.GetStatistics) and            *)
(* _get_band_statistics.                                                   *)
(*                                                                         *)
(* Statistics are the tuple <<min, max, mean, stddev>> the driver returns. *)
(* The mean is the exact fraction [n, d]; the standard deviation is kept   *)
(* by its square, the population variance, as an exact fraction.           *)
(***************************************************************************)
\* A raster with a nodata value set on its bands.
WithNoData(r, value) == [r EXCEPT !.nodata = Some(value)]

\* A raster whose band b carries statistics in its metadata
\* (STATISTICS_MINIMUM, ..., and STATISTICS_APPROXIMATE when approximate).
WithCachedStatistics(r, b, stats, approximate) ==
    [r EXCEPT !.cached[b] = Some([stats |-> stats, approximate |-> approximate])]

\* The valid samples of band b: its pixels other than the nodata value.
ValidSamples(ds, b) ==
    SelectSeq(Flat(ds.data[b], ds.width, ds.height),
              LAMBDA v : ~(ds.nodata.some /\ ds.nodata.v = v))

\* Exact population statistics of a non-empty sequence of samples.
ExactStatistics(samples) ==
    LET count == Len(samples)
        total == SumSeq(samples)
        squares == SumSeq([k \in 1..count |-> samples[k] * samples[k]])
    IN  << SeqMin(samples), SeqMax(samples),
           [n |-> total, d |-> count],
           [n |-> count * squares - total * total, d |-> count * count] >>

\* Computed statistics are returned and set on the band (Band.SetStatistics):
\* they are stored with the file, in its .aux.xml, when the dataset is closed.
\* A band read whole gives statistics that are not marked approximate.
SetStatistics(stats) ==
    [raised |-> FALSE, stats |-> stats, exact |-> TRUE,
     cached |-> Some([stats |-> stats, approximate |-> FALSE])]

\* The statistics computed from the valid samples read from a band; the
\* computation fails when there is none, and what the band stores stays.
ComputeStatistics(samples, stored) ==
    IF samples = <<>>
    THEN [raised |-> TRUE, stats |-> <<>>, exact |-> FALSE, cached |-> stored]
    ELSE SetStatistics(ExactStatistics(samples))

\* Band.GetStatistics(approx_ok, force) on band b of an open dataset, with
\* GDAL exceptions enabled (funcs.py 28).  Statistics stored in the band's
\* metadata are returned as they are, unless they are marked approximate and
\* approx_ok is false.  Otherwise, when forced, the statistics are computed
\* and the computation raises when the pixels cannot be read or no valid
\* sample is found; when not forced, nothing is computed and the tuple
\* <<0, 0, 0, -1>> comes back.  (A computation with approx_ok may sample an
\* overview or a subset of the blocks of a large band; the bands of the
\* model are small enough to be read whole.)  cached is what the band
\* stores after the call.
GetStatistics(ds, b, approx_ok, force) ==
    IF ds.cached[b].some /\ (approx_ok \/ ~ds.cached[b].v.approximate)
    THEN [raised |-> FALSE, stats |-> ds.cached[b].v.stats, exact |-> FALSE,
          cached |-> ds.cached[b]]
    ELSE IF ~force
    THEN [raised |-> FALSE, stats |-> <<0, 0, [n |-> 0, d |-> 1], [n |-> -1, d |-> 1]>>,
          exact |-> FALSE, cached |-> ds.cached[b]]
    ELSE IF ds.data = <<>>
    THEN [raised |-> TRUE, stats |-> <<>>, exact |-> FALSE, cached |-> ds.cached[b]]
    ELSE ComputeStatistics(ValidSamples(ds, b), ds.cached[b])

\* funcs.py 174: the request _get_band_statistics makes.
StatisticsRequest == [approx_ok |-> TRUE, force |-> TRUE]

\* funcs.py 176-179: stats[i] if stats else None (i is 1-based here).
StatOrNone(stats, i) == IF stats # <<>> THEN Some(stats[i]) ELSE None

\* funcs.py 175-180: the dictionary made of what the driver returned, and
\* what the band stores afterwards.
StatisticsDictionary(got) ==
    IF got.raised
    THEN [raised |-> TRUE, value |-> None, cached |-> got.cached]
    ELSE [raised |-> FALSE, cached |-> got.cached,
          value |-> Some([MinValue |-> StatOrNone(got.stats, 1),
                          MaxValue |-> StatOrNone(got.stats, 2),
                          MeanValue |-> StatOrNone(got.stats, 3),
                          StdDev |-> StatOrNone(got.stats, 4)])]

\* funcs.py 165-180, on band b of the open dataset ds.
_get_band_statistics(ds, b) ==
    StatisticsDictionary(GetStatistics(ds, b, StatisticsRequest.approx_ok,
                                       StatisticsRequest.force))

(***************************************************************************)
(* tiffinfo, analyze_tiff_comprehensive                                    *)
(***************************************************************************)
\* funcs.py 666-682: the entry of band i in BandInfo.
BandInfo(dataset, i, band_stats) ==
    [BandNumber |-> i,
     DataType |-> dataset.dtype,
     MinValue |-> band_stats.MinValue,
     MaxValue |-> band_stats.MaxValue,
     MeanValue |-> band_stats.MeanValue,
     StdDev |-> band_stats.StdDev,
     NoDataValue |-> dataset.nodata]

\* funcs.py 633-682: the fields of the info dictionary the callers read, from
\* the open dataset, the statistics of its bands (the first band's are also
\* the dictionary's own) and the result of the reprojection.
InfoDictionary(dataset, band_stats, geographic_result) ==
    [RasterXSize |-> dataset.width,
     RasterYSize |-> dataset.height,
     RasterCount |-> dataset.count,
     DataType |-> dataset.dtype,
     GeoTransform |-> dataset.gt,
     Projection |-> dataset.proj,
     GeographicBounds |-> geographic_result.geographic_bounds,
     GeographicCenter |-> geographic_result.geographic_center,
     MinValue |-> band_stats[1].value.v.MinValue,
     MaxValue |-> band_stats[1].value.v.MaxValue,
     MeanValue |-> band_stats[1].value.v.MeanValue,
     StdDev |-> band_stats[1].value.v.StdDev,
     BandInfo |-> [i \in 1..dataset.count |-> BandInfo(dataset, i, band_stats[i].value.v)]]

\* The file of a dataset when it is closed (funcs.py 684, or when the call
\* is left by an exception): the statistics computed on its bands, one band
\* after the other until one raised, are stored with it.
Closed(dataset, band_stats) ==
    [dataset EXCEPT !.cached =
        [b \in 1..dataset.count |->
            IF \A j \in 1..(b - 1) : ~band_stats[j].raised
            THEN band_stats[b].cached
            ELSE dataset.cached[b]]]

\* funcs.py 614-685 on the open dataset, given what _get_band_statistics
\* does on each of its bands: the statistics of a band that cannot be
\* computed (the first one at 618, any one at 668) end the call.
InfoOrError(f, input_tif, band_stats) ==
    IF \E i \in 1..f[input_tif].count : band_stats[i].raised
    THEN [raised |-> TRUE, error |-> "statistics", info |-> None,
          fs |-> [f EXCEPT ![input_tif] = Closed(f[input_tif], band_stats)]]
    ELSE [raised |-> FALSE, error |-> "",
          info |-> Some(InfoDictionary(f[input_tif], band_stats,
                                       GeographicResult(
                                           f[input_tif].gt,
                                           f[input_tif].proj,
                                           f[input_tif].width, f[input_tif].height))),
          fs |-> [f EXCEPT ![input_tif] = Closed(f[input_tif], band_stats)]]

\* funcs.py 599-685.  Raises when the dataset cannot be opened ("open") and
\* when the statistics of a band cannot be computed ("statistics"); fs is
\* the file system it leaves.
tiffinfo(f, input_tif) ==
    IF ~CanOpen(f, input_tif)
    THEN [raised |-> TRUE, error |-> "open", info |-> None, fs |-> f]
    ELSE InfoOrError(f, input_tif,
                     [i \in 1..f[input_tif].count |-> _get_band_statistics(f[input_tif], i)])

(***************************************************************************)
(* format_coordinate_bounds, format_coordinate_center                      *)
(***************************************************************************)
\* The digits "{:.6f}" prints for a float64 that is not negative, as a whole
\* number of millionths: the exact binary value rounded to six decimals,
\* halves to the even digit.
SixDecimals(x) ==
    IF x.man = <<>> THEN 0
    ELSE IF x.exp >= 0
    THEN BigInt(BigShl(BigMul(x.man, BigOf(1000000)), x.exp))
    ELSE BigInt(RoundedShr(BigMul(x.man, BigOf(1000000)), -x.exp))

\* One formatted coordinate, f"{abs(value):.6f}°{dir}": the millionths that
\* are printed and the hemisphere letter.
Formatted(value, dir) == [millionths |-> SixDecimals(Float64Abs(value)), dir |-> dir]

\* funcs.py 698-704: the hemisphere letters (W below zero, E from zero on,
\* and S and N likewise) and the four coordinates of the string.
FormattedBounds(b) ==
    [west |-> Formatted(b.west, IF Float64Less(b.west, Float64Zero) THEN "W" ELSE "E"),
     east |-> Formatted(b.east, IF Float64LessEq(Float64Zero, b.east) THEN "E" ELSE "W"),
     south |-> Formatted(b.south, IF Float64Less(b.south, Float64Zero) THEN "S" ELSE "N"),
     north |-> Formatted(b.north, IF Float64LessEq(Float64Zero, b.north) THEN "N" ELSE "S")]

\* Mutant of format_coordinate_bounds: missing bounds are formatted as zeros.
format_coordinate_bounds_or_zero(bounds) ==
    Some(FormattedBounds(IF bounds.some THEN bounds.v
                         ELSE [west |-> Float64Zero, east |-> Float64Zero,
                               south |-> Float64Zero, north |-> Float64Zero]))

\* funcs.py 688-705: None for missing bounds, otherwise the four formatted
\* coordinates of the string.
format_coordinate_bounds(bounds) ==
    IF ~bounds.some THEN None ELSE Some(FormattedBounds(bounds.v))

\* funcs.py 708-723: None for a missing center, otherwise the two formatted
\* coordinates of the string (E and N from zero on).
format_coordinate_center(center) ==
    IF ~center.some
    THEN None
    ELSE Some([longitude |-> Formatted(center.v.longitude,
                                       IF Float64LessEq(Float64Zero, center.v.longitude)
                                       THEN "E" ELSE "W"),
               latitude |-> Formatted(center.v.latitude,
                                      IF Float64LessEq(Float64Zero, center.v.latitude)
                                      THEN "N" ELSE "S")])

(***************************************************************************)
(* calculate_projected_distance_and_area                                   *)
(*                                                                         *)
(* Spans and areas are float64 values, computed operation by operation as  *)
(* the code computes them.                                                 *)
(***************************************************************************)
\* The unit name of a result without a unit (funcs.py 743, 777, 814).
UnknownUnit == "unknown unit"

\* The unit name of the geographic approximation (funcs.py 803).
DegreesApprox == "degrees (approximate)"

\* funcs.py 761-766: SpatialReference.ImportFromWkt, GetLinearUnitsName and
\* GetLinearUnits of a projection string: whether the lookup returned, the
\* unit name and the number of metres in one unit (float64).  The WKT that
\* does not parse raises; a geographic system returns the neutral factor 1;
\* PROJ_QUAD carries a unit without a name.
LinearUnits(projection) ==
    IF ~ImportFromWktOK(projection)
    THEN [ok |-> FALSE, name |-> "", to_meter |-> Float64Zero]
    ELSE IF projection = "PROJ_ROT"
    THEN [ok |-> TRUE, name |-> "kilometre", to_meter |-> Float64(1000)]
    ELSE IF projection = "PROJ_SING"
    THEN [ok |-> TRUE, name |-> "nautical mile", to_meter |-> Float64(1852)]
    ELSE IF projection = "PROJ_QUAD"
    THEN [ok |-> TRUE, name |-> "", to_meter |-> Float64(1)]
    ELSE IF projection = "GEOGCS"
    THEN [ok |-> TRUE, name |-> "unknown", to_meter |-> Float64(1)]
    ELSE [ok |-> TRUE, name |-> "metre", to_meter |-> Float64(1)]

\* funcs.py 738: not geotransform or not projection (a missing key, None, an
\* empty tuple and an empty string are all false in Python).
MetadataMissing(geotransform, projection) == geotransform = <<>> \/ projection = ""

\* funcs.py 749, 751: origin + count * size, the edge of the raster opposite
\* to its origin.
FarEdge(origin, count, size) == Float64Add(origin, Float64Mul(Float64(count), size))

\* funcs.py 754-755, 790-791: abs(max - min), abs(east - west) and
\* abs(north - south)
Span(max, min) == Float64Abs(Float64Sub(max, min))

\* funcs.py 748-756: x_span, y_span and area in the units of the projection.
\* max_x is the far edge in x and min_x the origin; max_y is the origin and
\* min_y the far edge in y.
SpansOf(x_span, y_span) ==
    [x_span |-> x_span, y_span |-> y_span, area |-> Float64Mul(x_span, y_span)]

ProjectedSpans(geotransform, width, height) ==
    SpansOf(Span(FarEdge(geotransform[1], width, geotransform[2]), geotransform[1]),
            Span(geotransform[4], FarEdge(geotransform[4], height, geotransform[6])))

\* Mutant of SpanKm: the unit factor is left out.
SpanKmNoUnit(span, unit_to_meter) == Float64Div(span, Float64(1000))

\* funcs.py 769-770: (span * unit_to_meter) / 1000.0
SpanKm(span, unit_to_meter) == Float64Div(Float64Mul(span, unit_to_meter), Float64(1000))

\* funcs.py 771: (area * unit_to_meter * unit_to_meter) / 1000000.0
AreaKm2(area, unit_to_meter) ==
    Float64Div(Float64Mul(Float64Mul(area, unit_to_meter), unit_to_meter), Float64(1000000))

\* Mutant of LookupFailed: a unit without a name counts as a failed lookup.
LookupFailedOrUnnamed(units) == ~units.ok \/ units.name = ""

\* funcs.py 760, 784: the except clause runs when the lookup raised.
LookupFailed(units) == ~units.ok

\* Mutant of LatCenter: the latitude of GeographicCenter when there is one.
LatCenterOfCenter(info) ==
    IF info.GeographicCenter.some
    THEN info.GeographicCenter.v.latitude
    ELSE Float64Div(Float64Add(info.GeographicBounds.v.north, info.GeographicBounds.v.south),
                    Float64(2))

\* funcs.py 789: lat_center = (north + south) / 2
LatCenter(info) ==
    Float64Div(Float64Add(info.GeographicBounds.v.north, info.GeographicBounds.v.south),
               Float64(2))

\* Mutant of CosDegrees: no correction for the latitude.
CosDegreesOne(lat) == Float64(1)

\* funcs.py 792, 794: math.cos(math.radians(lat)) in float64, at the
\* latitudes 0, 60, -60, 90 and -90: 1.0, 0.5000000000000001 (4503599627370497
\* * 2^-53, not one half) and 6.123233995736766e-17 (4967757600021511 *
\* 2^-106, not zero).
CosDegrees(lat) ==
    CASE lat = Float64Zero -> Float64(1)
      [] Float64Abs(lat) = Float64(60) -> Float64Exact(FALSE, <<1, 0, 0, 1024>>, -53)
      [] Float64Abs(lat) = Float64(90) -> Float64Exact(FALSE, <<7175, 3153, 8803, 1129>>, -106)

\* Kilometres in one degree (funcs.py 795-796).
DegreeKm == 111

\* funcs.py 797-808: area_km2 = x_span_km * y_span_km, and the dictionary of
\* the geographic approximation.
ApproximationFrom(x_span_km, y_span_km, x_span, y_span, area) ==
    [x_span_km |-> Some(x_span_km),
     y_span_km |-> Some(y_span_km),
     area_km2 |-> Some(Float64Mul(x_span_km, y_span_km)),
     unit_name |-> DegreesApprox,
     unit_to_meter |-> None,
     x_span_original |-> x_span,
     y_span_original |-> y_span,
     area_original |-> area]

\* funcs.py 786-808: the geographic approximation from the bounds, x_span_km
\* = lon_span * 111.0 * cos_lat and y_span_km = lat_span * 111.0.
GeographicApproximation(info, x_span, y_span, area) ==
    ApproximationFrom(
        Float64Mul(Float64Mul(Span(info.GeographicBounds.v.east,
                                         info.GeographicBounds.v.west),
                              Float64(DegreeKm)),
                   CosDegrees(LatCenter(info))),
        Float64Mul(Span(info.GeographicBounds.v.north, info.GeographicBounds.v.south),
                   Float64(DegreeKm)),
        x_span, y_span, area)

\* Mutant of NoSpans: the unit name of the geographic approximation.
NoSpansDegrees ==
    [x_span_km |-> None, y_span_km |-> None, area_km2 |-> None, unit_name |-> DegreesApprox]

\* funcs.py 739-744, 810-815: the result without spans.
NoSpans == [x_span_km |-> None, y_span_km |-> None, area_km2 |-> None, unit_name |-> UnknownUnit]

\* funcs.py 768-782: the spans in kilometres from the unit of the projection;
\* a unit without a name is reported as the unknown unit.
PrimarySpans(units, x_span, y_span, area) ==
    [x_span_km |-> Some(SpanKm(x_span, units.to_meter)),
     y_span_km |-> Some(SpanKm(y_span, units.to_meter)),
     area_km2 |-> Some(AreaKm2(area, units.to_meter)),
     unit_name |-> IF units.name = "" THEN UnknownUnit ELSE units.name,
     unit_to_meter |-> Some(units.to_meter),
     x_span_original |-> x_span,
     y_span_original |-> y_span,
     area_original |-> area]

\* funcs.py 758-815, given the spans in the units of the projection and what
\* the unit lookup gave.
SpansOrApproximation(info, units, spans) ==
    IF ~LookupFailed(units)
    THEN [unit_lookups |-> 1,
          value |-> PrimarySpans(units, spans.x_span, spans.y_span, spans.area)]
    ELSE IF info.GeographicBounds.some
    THEN [unit_lookups |-> 1,
          value |-> GeographicApproximation(info, spans.x_span, spans.y_span, spans.area)]
    ELSE [unit_lookups |-> 1, value |-> NoSpans]

\* funcs.py 726-815: the dictionary returned, and how often the CRS unit
\* lookup was consulted.
calculate_projected_distance_and_area(info) ==
    IF MetadataMissing(info.GeoTransform, info.Projection)
    THEN [unit_lookups |-> 0, value |-> NoSpans]
    ELSE SpansOrApproximation(info, LinearUnits(info.Projection),
                              ProjectedSpans(info.GeoTransform, info.RasterXSize,
                                             info.RasterYSize))

\* funcs.py 845-887: the dictionary analyze_tiff_comprehensive builds from
\* tiff_info: the spans, the formatted coordinates and the pixel count.
Analysis(tiff_info) ==
    [tiff_info |-> tiff_info,
     distance_area |-> calculate_projected_distance_and_area(tiff_info).value,
     coordinates |-> [bounds_str |-> format_coordinate_bounds(tiff_info.GeographicBounds),
                      center_str |-> format_coordinate_center(tiff_info.GeographicCenter)],
     total_pixels |-> tiff_info.RasterXSize * tiff_info.RasterYSize]

\* funcs.py 845-887 on what tiffinfo raised or returned.
AnalysisOrError(t) ==
    IF t.raised
    THEN [raised |-> TRUE, error |-> t.error, analysis |-> None, fs |-> t.fs]
    ELSE [raised |-> FALSE, error |-> "", analysis |-> Some(Analysis(t.info.v)), fs |-> t.fs]

\* funcs.py 830-887; raises when tiffinfo does.
analyze_tiff_comprehensive(f, file_path) == AnalysisOrError(tiffinfo(f, file_path))

(***************************************************************************)
(* process_tiff_cropping                                                   *)
(***************************************************************************)
\* Mutant of CropValidation: the lower edges and the sizes are checked too.
CropValidationBothEdges(tiff_info, xoff, yoff, xsize, ysize) ==
    LET x_bad == xoff < 0 \/ xsize <= 0 \/ xoff + xsize > tiff_info.RasterXSize
        y_bad == yoff < 0 \/ ysize <= 0 \/ yoff + ysize > tiff_info.RasterYSize
    IN  [valid |-> ~x_bad /\ ~y_bad,
         errors |-> (IF x_bad THEN <<"X out of bounds">> ELSE <<>>)
                    \o (IF y_bad THEN <<"Y out of bounds">> ELSE <<>>),
         warnings |-> <<>>]

\* Mutant of CropValidation: a window beyond the raster is marked invalid
\* and no error is recorded.
CropValidationSilent(tiff_info, xoff, yoff, xsize, ysize) ==
    [valid |-> ~(xoff + xsize > tiff_info.RasterXSize) /\ ~(yoff + ysize > tiff_info.RasterYSize),
     errors |-> <<>>,
     warnings |-> <<>>]

\* funcs.py 990-1008: the validation of the crop window against the raster.
CropValidation(tiff_info, xoff, yoff, xsize, ysize) ==
    LET x_bad == xoff + xsize > tiff_info.RasterXSize
        y_bad == yoff + ysize > tiff_info.RasterYSize
    IN  [valid |-> ~x_bad /\ ~y_bad,
         errors |-> (IF x_bad THEN <<"X out of bounds">> ELSE <<>>)
                    \o (IF y_bad THEN <<"Y out of bounds">> ELSE <<>>),
         warnings |-> <<>>]

\* funcs.py 1019-1022: cutiff runs only on a valid window.
CropRuns(crop_validation) == crop_validation.valid

\* funcs.py 1031-1061: the result of a crop that ran, given the analysis of
\* its output (1027-1029), and the file system that analysis leaves.
CropResult(input_analysis, crop_validation, c, output_analysis) ==
    [raised |-> FALSE, error |-> "", cutiff_calls |-> 1,
     result |-> Some([input_analysis |-> input_analysis.analysis,
                      output_path |-> c.value,
                      output_analysis |-> output_analysis.analysis,
                      crop_validation |-> crop_validation]),
     fs |-> output_analysis.fs]

\* funcs.py 1021-1061, given what cutiff (funcs.py 1022) raised or returned:
\* its error propagates, or its output is analysed (funcs.py 1027).
CropCut(input_analysis, crop_validation, c) ==
    IF c.raised
    THEN [raised |-> TRUE, error |-> c.error, cutiff_calls |-> 1,
          result |-> None, fs |-> c.fs]
    ELSE CropResult(input_analysis, crop_validation, c,
                    analyze_tiff_comprehensive(c.fs, c.value.v))

\* funcs.py 1019-1061, given the validation of the window (funcs.py 990-1015):
\* cutiff is invoked when the validation lets the crop run.
CropValidated(input_analysis, crop_validation, input_path, output_path, xoff, yoff, xsize, ysize) ==
    IF ~CropRuns(crop_validation)
    THEN [raised |-> FALSE, error |-> "", cutiff_calls |-> 0,
          result |-> Some([input_analysis |-> input_analysis.analysis,
                           output_path |-> None,
                           output_analysis |-> None,
                           crop_validation |-> crop_validation]),
          fs |-> input_analysis.fs]
    ELSE CropCut(input_analysis, crop_validation,
                 cutiff(input_analysis.fs, input_path, output_path,
                        xoff, yoff, xsize, ysize))

\* funcs.py 989-1061, given what the input analysis of 987 raised or
\* returned and the file system it left: the result dictionary (or the error
\* raised), the number of times cutiff was invoked, and the file system left.
CropAnalysed(input_analysis, input_path, output_path, xoff, yoff, xsize, ysize) ==
    IF input_analysis.raised
    THEN [raised |-> TRUE, error |-> input_analysis.error, cutiff_calls |-> 0,
          result |-> None, fs |-> input_analysis.fs]
    ELSE CropValidated(input_analysis,
                       CropValidation(input_analysis.analysis.v.tiff_info,
                                      xoff, yoff, xsize, ysize),
                       input_path, output_path, xoff, yoff, xsize, ysize)

\* funcs.py 964-1061
process_tiff_cropping(f, input_path, output_path, xoff, yoff, xsize, ysize) ==
    CropAnalysed(analyze_tiff_comprehensive(f, input_path),
                 input_path, output_path, xoff, yoff, xsize, ysize)

(***************************************************************************)
(* The cutiff command (cli.py cutiff_cli)                                  *)
(***************************************************************************)
\* os.path.exists
PathExists(f, path) == f[path].kind # "absent"

\* cli.py 594-598: the window exceeds the raster.
OutOfRange(info, xoff, yoff, xsize, ysize) ==
    \/ xoff + xsize > info.RasterXSize
    \/ yoff + ysize > info.RasterYSize

\* cli.py 615-619: the command invokes cutiff whatever the validation said.
CliCropRuns(warned) == TRUE

\* cli.py 621-740: a crop that ran is reported with the inspection of its
\* output (cli.py 635), which leaves the file system.
CliCropResult(warned, c, output_info) ==
    [raised |-> FALSE, error |-> "", warned |-> warned, cutiff_calls |-> 1,
     value |-> c.value, fs |-> output_info.fs]

\* cli.py 619-740, given what cutiff (cli.py 619) raised or returned: its
\* error propagates, or its output is inspected (cli.py 635).
CliCropCut(warned, c) ==
    IF c.raised
    THEN [raised |-> TRUE, error |-> c.error, warned |-> warned,
          cutiff_calls |-> 1, value |-> None, fs |-> c.fs]
    ELSE CliCropResult(warned, c, tiffinfo(c.fs, c.value.v))

\* cli.py 615-740, given whether the out-of-range warning was printed
\* (cli.py 594-598) and the file system the inspection of the input left.
CliCropChecked(warned, inspected, input_tif, output_tif, xoff, yoff, xsize, ysize) ==
    IF ~CliCropRuns(warned)
    THEN [raised |-> FALSE, error |-> "", warned |-> warned, cutiff_calls |-> 0,
          value |-> None, fs |-> inspected]
    ELSE CliCropCut(warned,
                    cutiff(inspected, input_tif, output_tif, xoff, yoff, xsize, ysize))

\* cli.py 573-740, given what tiffinfo (cli.py 571) raises or returns on the
\* input and the file system it leaves: whether the out-of-range warning was
\* printed, how often cutiff was invoked, what was raised.
CliCropInspected(input_info, f, input_tif, output_tif, xoff, yoff, xsize, ysize) ==
    IF PathExists(f, input_tif) /\ input_info.raised
    THEN [raised |-> TRUE, error |-> input_info.error, warned |-> FALSE, cutiff_calls |-> 0,
          value |-> None, fs |-> input_info.fs]
    ELSE CliCropChecked(PathExists(f, input_tif)
                            /\ OutOfRange(input_info.info.v, xoff, yoff, xsize, ysize),
                        IF PathExists(f, input_tif) THEN input_info.fs ELSE f,
                        input_tif, output_tif, xoff, yoff, xsize, ysize)

\* cli.py 527-740; tiffinfo is called when the input path exists.
cutiff_cli(f, input_tif, output_tif, xoff, yoff, xsize, ysize) ==
    CliCropInspected(tiffinfo(f, input_tif),
                     f, input_tif, output_tif, xoff, yoff, xsize, ysize)

(***************************************************************************)
(* gray_process: the percentile stretch.                                   *)
(*                                                                         *)
(* The samples are converted to float64 (funcs.py 403) and every step is   *)
(* float64 arithmetic; samples and truncated_value are integers here.      *)
(***************************************************************************)
\* The defaults of numpy.isclose: atol = 1e-08 and rtol = 1e-05, each the
\* float64 nearest to the decimal.
Atol == Float64Div(Float64(1), Float64(10^8))

Rtol == Float64Div(Float64(1), Float64(10^5))

\* numpy.isclose(a, b): |a - b| <= atol + rtol * |b|
IsClose(a, b) ==
    Float64LessEq(Float64Abs(Float64Sub(a, b)),
                  Float64Add(Atol, Float64Mul(Rtol, Float64Abs(b))))

\* funcs.py 406: not np.any(gray_array)
AllZero(gray) == \A i \in DOMAIN gray : gray[i] = 0

\* funcs.py 406: np.allclose(gray_array, gray_array.flat[0])
AllCloseToFirst(gray) ==
    \A i \in DOMAIN gray : IsClose(Float64(gray[i]), Float64(gray[1]))

\* Mutant of IsConstantArray: the test is left out.
NeverConstant(gray) == FALSE

\* funcs.py 406: the test of the all-zero or constant array.
IsConstantArray(gray) == AllZero(gray) \/ AllCloseToFirst(gray)

RECURSIVE Insert(_, _)
Insert(s, v) ==
    IF s = <<>> THEN <<v>>
    ELSE IF v <= Head(s) THEN <<v>> \o s
    ELSE <<Head(s)>> \o Insert(Tail(s), v)

RECURSIVE SortAscending(_)
SortAscending(s) == IF s = <<>> THEN <<>> ELSE Insert(SortAscending(Tail(s)), Head(s))

\* 0.5 = 1 * 2^-1
Half == Float64Exact(FALSE, <<1>>, -1)

\* numpy's _lerp(a, b, t) with diff_b_a = b - a: a + diff_b_a * t, and
\* b - diff_b_a * (1 - t) where t >= 0.5.
LerpBy(a, b, t, diff_b_a) ==
    IF Float64LessEq(Half, t)
    THEN Float64Sub(b, Float64Mul(diff_b_a, Float64Sub(Float64(1), t)))
    ELSE Float64Add(a, Float64Mul(diff_b_a, t))

Lerp(a, b, t) == LerpBy(a, b, t, Float64Sub(b, a))

\* The interpolation of numpy.percentile at virtual index virtual_index of n
\* sorted samples: between the order statistic at its integer part and the
\* next one, both the last one from index n - 1 on.
Interpolated(sorted, n, virtual_index, previous_index) ==
    IF previous_index >= n - 1
    THEN Float64(sorted[n])
    ELSE Lerp(Float64(sorted[previous_index + 1]), Float64(sorted[previous_index + 2]),
              Float64Sub(virtual_index, Float64(previous_index)))

VirtualIndex(n, quantile) == Float64Mul(Float64(n - 1), quantile)

\* numpy.percentile(a, q) of the sorted samples, method 'linear': the
\* quantile is q / 100 and the virtual index (n - 1) * quantile.
PercentileAt(sorted, virtual_index) ==
    Interpolated(sorted, Len(sorted), virtual_index, Float64Trunc(virtual_index))

Percentile(sorted, q) ==
    PercentileAt(sorted, VirtualIndex(Len(sorted), Float64Div(Float64(q), Float64(100))))

\* funcs.py 418: (v - lo) / (hi - lo) * (max_out - min_out) + min_out
LinearMap(v, lo, hi, max_out, min_out) ==
    Float64Add(Float64Mul(Float64Div(Float64Sub(Float64(v), lo), Float64Sub(hi, lo)),
                          Float64(max_out - min_out)),
               Float64(min_out))

\* Mutant of Clip: no clipping.
ClipNone(x, a_min, a_max) == x

\* The larger and the smaller of two float64 values (np.maximum, np.minimum).
Maximum(x, y) == IF Float64Less(x, y) THEN y ELSE x

Minimum(x, y) == IF Float64Less(y, x) THEN y ELSE x

\* numpy.clip(x, a_min, a_max) is minimum(maximum(x, a_min), a_max): with
\* a_min > a_max every element becomes a_max.
Clip(x, a_min, a_max) == Minimum(Maximum(x, Float64(a_min)), Float64(a_max))

\* ndarray.astype(np.uint8) of a float: the fraction is dropped (truncation
\* towards zero) and the integer taken modulo 256.
AsUint8(x) == Float64Trunc(x) % 256

\* numpy.full_like(gray_array, value, dtype=np.uint8)
FullLike(gray, value) == [i \in DOMAIN gray |-> value % 256]

\* funcs.py 414: the fill value when the two percentiles are close.
MidGray(max_out, min_out) == (max_out + min_out) \div 2

\* funcs.py 413-421: the stretch between the percentiles lo and hi.
StretchBetween(gray, lo, hi, max_out, min_out) ==
    IF IsClose(hi, lo)
    THEN FullLike(gray, MidGray(max_out, min_out))
    ELSE [i \in DOMAIN gray |->
             AsUint8(Clip(LinearMap(gray[i], lo, hi, max_out, min_out), min_out, max_out))]

\* funcs.py 410: the two percentiles of the samples.
StretchSorted(gray, sorted, truncated_value, max_out, min_out) ==
    StretchBetween(gray, Percentile(sorted, truncated_value),
                   Percentile(sorted, 100 - truncated_value), max_out, min_out)

\* funcs.py 403-421
gray_process(gray, truncated_value, max_out, min_out) ==
    IF IsConstantArray(gray)
    THEN FullLike(gray, min_out)
    ELSE StretchSorted(gray, SortAscending(gray), truncated_value, max_out, min_out)

(***************************************************************************)
(* tiff2png, process_tiff_conversion                                       *)
(***************************************************************************)
\* The 2-dimensional array of the shape of the input (full_like, astype).
Reshape(flat, w, h) == [r \in 1..h |-> [c \in 1..w |-> flat[(r - 1) * w + c]]]

\* Mutant of StretchedBand: the last band of a multi-band array.
StretchedBandLast(array) == array.planes[Len(array.planes)]

\* funcs.py 449-450: a 3-dimensional array is reduced to array[0]; a
\* 2-dimensional one is its only plane.
StretchedBand(array) == array.planes[1]

\* cvRound of n / d (d > 0, n >= 0): to the nearest integer, ties to even.
RoundHalfEven(n, d) ==
    LET q == n \div d
        r == n % d
    IN  IF 2 * r > d \/ (2 * r = d /\ q % 2 = 1) THEN q + 1 ELSE q

\* cv2.resize(img, (new_w, new_h), interpolation=cv2.INTER_AREA) of an 8-bit
\* image for a whole-number scale (w, h multiples of new_w, new_h): each
\* output pixel is the mean of its block of sx by sy pixels, 2 by 2 blocks
\* rounded as (sum + 2) >> 2, the others by cvRound.
AreaResize(img, w, h, new_w, new_h) ==
    LET sx == w \div new_w
        sy == h \div new_h
        block(r, c) == [k \in 1..(sx * sy) |->
                           img[(r - 1) * sy + ((k - 1) \div sx) + 1]
                              [(c - 1) * sx + ((k - 1) % sx) + 1]]
        mean(total) == IF sx = 2 /\ sy = 2 THEN (total + 2) \div 4
                       ELSE RoundHalfEven(total, sx * sy)
    IN  [r \in 1..new_h |-> [c \in 1..new_w |-> mean(SumSeq(block(r, c)))]]

\* Percents of the conversions: none, the default, and the median.
TruncatedValues == {0, 1, 50}

\* Contents of a band: the ramp of SourceData, a checkerboard, a flat band.
Patterns == {"ramp", "checker", "flat"}

PatternValue(k, r, c) ==
    IF k = "ramp" THEN (r - 1) * 10 + (c - 1)
    ELSE IF k = "checker" THEN ((r + c) % 2) * 200 + 5
    ELSE 7

PatternPlane(k, w, h) == [r \in 1..h |-> [c \in 1..w |-> PatternValue(k, r, c)]]

\* funcs.py 453: processed_img = gray_process(array, truncated_value), with
\* the default output range 0..255.  gray_process is a function of its
\* arguments alone: its value on every plane of the band patterns is worked
\* out once and looked up, and worked out on the spot for any other plane.
StretchedPlanes ==
    { [gray |-> Flat(PatternPlane(k, w, h), w, h), truncated_value |-> t,
       processed |-> gray_process(Flat(PatternPlane(k, w, h), w, h), t, 255, 0)] :
         k \in Patterns, w \in 1..(2 * MaxSize), h \in 1..MaxSize, t \in TruncatedValues }

StretchKnown(gray, truncated_value, known) ==
    IF known = {} THEN gray_process(gray, truncated_value, 255, 0)
    ELSE (CHOOSE s \in known : TRUE).processed

Stretch(gray, truncated_value) ==
    StretchKnown(gray, truncated_value,
                 { s \in StretchedPlanes :
                     s.gray = gray /\ s.truncated_value = truncated_value })

\* Mutant of Resizes: the image is never resized.
ResizesNever(downsample) == FALSE

\* funcs.py 456: the image is resized when downsample > 1.
Resizes(downsample) == downsample > 1

\* funcs.py 455-465: the stretched image of w by h pixels is resized when
\* downsample > 1, written to output_png, and output_png returned.
\* cv2.resize raises on an empty target size.
PngWritten(f, output_png, processed_img, w, h, downsample) ==
    LET new_h == h \div downsample
        new_w == w \div downsample
    IN  IF Resizes(downsample) /\ (new_w = 0 \/ new_h = 0)
        THEN [raised |-> TRUE, error |-> "resize", value |-> None, fs |-> f]
        ELSE [raised |-> FALSE, error |-> "", value |-> Some(output_png),
              fs |-> [f EXCEPT ![output_png] =
                         IF Resizes(downsample)
                         THEN PngFile(new_w, new_h,
                                      AreaResize(processed_img, w, h, new_w, new_h))
                         ELSE PngFile(w, h, processed_img)]]

\* funcs.py 446-465, given the array read at 446 from the dataset of w by h
\* pixels.  The stretch runs with the default output range 0..255.
Tiff2pngRead(f, output_png, truncated_value, downsample, array, w, h) ==
    IF ~array.ok
    THEN [raised |-> TRUE, error |-> "read", value |-> None,
          fs |-> AbortedAtRead(f, output_png)]
    ELSE PngWritten(f, output_png,
                    Reshape(Stretch(Flat(StretchedBand(array), w, h), truncated_value), w, h),
                    w, h, downsample)

\* funcs.py 424-465: tiff2png(input_tif, output_png, truncated_value,
\* downsample) on file system f.
tiff2png(f, input_tif, output_png, truncated_value, downsample) ==
    IF ~CanOpen(f, input_tif)
    THEN [raised |-> TRUE, error |-> "open", value |-> None,
          fs |-> AbortedAtOpen(f, output_png)]
    ELSE Tiff2pngRead(f, output_png, truncated_value, downsample,
                      _safe_read_array(f[input_tif], 0, 0,
                                       f[input_tif].width, f[input_tif].height),
                      f[input_tif].width, f[input_tif].height)

\* funcs.py 926-938: size and mode of the PNG written, None without a file.
PngInfo(f, result_path) ==
    IF f[result_path].kind = "png"
    THEN Some([size |-> <<f[result_path].width, f[result_path].height>>, mode |-> "L"])
    ELSE None

\* funcs.py 923-961, given what tiff2png (funcs.py 918) raised or returned:
\* the result dictionary.
Converted(input_analysis, truncated_value, downsample, c) ==
    IF c.raised
    THEN [raised |-> TRUE, error |-> c.error, result |-> None, fs |-> c.fs]
    ELSE [raised |-> FALSE, error |-> "",
          result |-> Some([input_analysis |-> input_analysis.analysis,
                           output_path |-> c.value,
                           png_info |-> PngInfo(c.fs, c.value.v),
                           parameters |-> [truncated_value |-> truncated_value,
                                           downsample |-> downsample]]),
          fs |-> c.fs]

\* funcs.py 910-961, given what the input analysis of 907 raised or returned
\* and the file system it left: the result dictionary (or the error raised)
\* and the file system left.
ConvertAnalysed(input_analysis, input_path, output_path, truncated_value, downsample) ==
        IF input_analysis.raised
        THEN [raised |-> TRUE, error |-> input_analysis.error, result |-> None,
              fs |-> input_analysis.fs]
        ELSE Converted(input_analysis, truncated_value, downsample,
                       tiff2png(input_analysis.fs, input_path, output_path,
                                truncated_value, downsample))

\* funcs.py 895-961
process_tiff_conversion(f, input_path, output_path, truncated_value, downsample) ==
    ConvertAnalysed(analyze_tiff_comprehensive(f, input_path),
                    input_path, output_path, truncated_value, downsample)

(***************************************************************************)
(* The tiff2png and tiffinfo commands (cli.py tiff2png_cli, tiffinfo_cli)  *)
(***************************************************************************)
\* cli.py 469-521, given what tiff2png (cli.py 469) raised or returned.
Tiff2pngCalled(c) ==
    [raised |-> c.raised, error |-> c.error, tiff2png_calls |-> 1, fs |-> c.fs]

\* cli.py 371-521, given what tiffinfo (cli.py 369) raised or returned on the
\* input and the file system it left: the report is printed, tiff2png
\* (cli.py 469) converts, and the PNG is described.  A command returns
\* nothing.
Tiff2pngInspected(input_info, input_tif, output_png, truncated_value, downsample) ==
    IF input_info.raised
    THEN [raised |-> TRUE, error |-> input_info.error, tiff2png_calls |-> 0,
          fs |-> input_info.fs]
    ELSE Tiff2pngCalled(tiff2png(input_info.fs, input_tif, output_png, truncated_value,
                                 downsample))

\* cli.py 323-521; tiffinfo is called whether the input path exists or not.
tiff2png_cli(f, input_tif, output_png, truncated_value, downsample) ==
    Tiff2pngInspected(tiffinfo(f, input_tif),
                      input_tif, output_png, truncated_value, downsample)

\* cli.py 804-1081, given what tiffinfo (cli.py 802) raised or returned and
\* the file system it left: the report is printed.
InfoReported(info) == [raised |-> info.raised, error |-> info.error, fs |-> info.fs]

\* cli.py 760-1081
tiffinfo_cli(f, input_tif) == InfoReported(tiffinfo(f, input_tif))

(***************************************************************************)
(* The crop specification: one operation (a crop, a conversion or an       *)
(* inspection) on the files of a run.                                      *)
(***************************************************************************)
Offsets == -1..(MaxSize - 1)

Sizes == 0..MaxSize

\* Sizes given to process_tiff_cropping: a negative one as well.
ValidatedSizes == -1..MaxSize

InputPaths == {"in.tif", "bad.tif", "missing.tif"}

OutputPaths == {"out.tif", "in.tif"}

Idle == call.op = "none"

CropCall(op, input_tif, output_tif, xoff, yoff, xsize, ysize) ==
    [op |-> op, input_tif |-> input_tif, output_tif |-> output_tif,
     xoff |-> xoff, yoff |-> yoff, xsize |-> xsize, ysize |-> ysize, before |-> fs]

\* The files of a run: a raster, the same raster cut short, a file that is
\* no raster; the other paths name no file.
Files(r) ==
    [p \in Paths |->
        IF p = "in.tif" THEN r
        ELSE IF p = "trunc.tif" THEN Truncated(r)
        ELSE IF p = "bad.tif" THEN OtherFile
        ELSE NoFile]

InitCrop ==
    /\ \E r \in SourceRasters : fs = Files(r)
    /\ call = [op |-> "none"]
    /\ ret = [state |-> "idle"]

\* How a call ends.
Outcome(r) == IF r.raised THEN "raised" ELSE "returned"

\* cutiff or tiff2png ends: call c raised or returned r.value and left r.fs.
Ends(c, r) ==
    /\ call' = c
    /\ ret' = [state |-> Outcome(r), error |-> r.error, value |-> r.value]
    /\ fs' = r.fs

Cutiff ==
    /\ Idle
    /\ \E input_tif \in InputPaths, output_tif \in OutputPaths,
          xoff \in Offsets, yoff \in Offsets, xsize \in Sizes, ysize \in Sizes :
          Ends(CropCall("cutiff", input_tif, output_tif, xoff, yoff, xsize, ysize),
               cutiff(fs, input_tif, output_tif, xoff, yoff, xsize, ysize))

\* process_tiff_cropping ends: call c raised or returned r.result.
ProcessTiffCroppingEnds(c, r) ==
    /\ call' = c
    /\ ret' = [state |-> Outcome(r), error |-> r.error, cutiff_calls |-> r.cutiff_calls,
               result |-> r.result]
    /\ fs' = r.fs

\* process_tiff_cropping of one input whose analysis (funcs.py 987) is given,
\* for every output path and window.
ProcessTiffCroppingOf(input_path, input_analysis) ==
    \E output_path \in OutputPaths, xoff \in Offsets, yoff \in Offsets,
       xsize \in ValidatedSizes, ysize \in ValidatedSizes :
       ProcessTiffCroppingEnds(
           CropCall("process_tiff_cropping", input_path, output_path,
                    xoff, yoff, xsize, ysize),
           CropAnalysed(input_analysis, input_path, output_path, xoff, yoff, xsize, ysize))

ProcessTiffCropping ==
    /\ Idle
    /\ \E input_path \in InputPaths :
          ProcessTiffCroppingOf(input_path, analyze_tiff_comprehensive(fs, input_path))

\* The cutiff command ends: call c raised or exited, having printed the
\* warning or not.
CutiffCliEnds(c, r) ==
    /\ call' = c
    /\ ret' = [state |-> Outcome(r), error |-> r.error, warned |-> r.warned,
               cutiff_calls |-> r.cutiff_calls, value |-> r.value]
    /\ fs' = r.fs

\* The cutiff command on one input whose inspection (cli.py 571) is given,
\* for every output path and window.
CutiffCliOf(input_tif, input_info) ==
    \E output_tif \in OutputPaths,
       xoff \in Offsets, yoff \in Offsets, xsize \in Sizes, ysize \in Sizes :
       CutiffCliEnds(
           CropCall("cutiff_cli", input_tif, output_tif, xoff, yoff, xsize, ysize),
           CliCropInspected(input_info, fs, input_tif, output_tif, xoff, yoff, xsize, ysize))

CutiffCli ==
    /\ Idle
    /\ \E input_tif \in InputPaths : CutiffCliOf(input_tif, tiffinfo(fs, input_tif))

\* Inputs of the conversions and inspections.
ConvertInputPaths == {"in.tif", "bad.tif", "missing.tif", "trunc.tif"}

InspectInputPaths == {"in.tif", "bad.tif", "missing.tif"}

\* Downsampling factors: a negative one, zero, none, a halving, and one
\* beyond the size of every raster.
Downsamples == {-1, 0, 1, 2, 2 * MaxSize}

FileCall(op, input_tif, output_tif, truncated_value, downsample) ==
    [op |-> op, input_tif |-> input_tif, output_tif |-> output_tif,
     truncated_value |-> truncated_value, downsample |-> downsample, before |-> fs]

Tiff2png ==
    /\ Idle
    /\ \E input_tif \in ConvertInputPaths, truncated_value \in TruncatedValues,
          downsample \in Downsamples :
          Ends(FileCall("tiff2png", input_tif, "out.png", truncated_value, downsample),
               tiff2png(fs, input_tif, "out.png", truncated_value, downsample))

\* process_tiff_conversion ends: call c raised or returned r.result.
ProcessTiffConversionEnds(c, r) ==
    /\ call' = c
    /\ ret' = [state |-> Outcome(r), error |-> r.error, result |-> r.result]
    /\ fs' = r.fs

ProcessTiffConversion ==
    /\ Idle
    /\ \E input_path \in InspectInputPaths, truncated_value \in TruncatedValues,
          downsample \in Downsamples :
          ProcessTiffConversionEnds(
              FileCall("process_tiff_conversion", input_path, "out.png",
                       truncated_value, downsample),
              process_tiff_conversion(fs, input_path, "out.png", truncated_value, downsample))

\* tiffinfo ends: call c raised or returned r.info.
TiffinfoEnds(c, r) ==
    /\ call' = c
    /\ ret' = [state |-> Outcome(r), error |-> r.error, info |-> r.info]
    /\ fs' = r.fs

Tiffinfo ==
    /\ Idle
    /\ \E input_tif \in InspectInputPaths :
          TiffinfoEnds([op |-> "tiffinfo", input_tif |-> input_tif, before |-> fs],
                       tiffinfo(fs, input_tif))

\* analyze_tiff_comprehensive ends: call c raised or returned r.analysis.
AnalyzeTiffComprehensiveEnds(c, r) ==
    /\ call' = c
    /\ ret' = [state |-> Outcome(r), error |-> r.error, analysis |-> r.analysis]
    /\ fs' = r.fs

AnalyzeTiffComprehensive ==
    /\ Idle
    /\ \E file_path \in InspectInputPaths :
          AnalyzeTiffComprehensiveEnds(
              [op |-> "analyze_tiff_comprehensive", input_tif |-> file_path, before |-> fs],
              analyze_tiff_comprehensive(fs, file_path))

\* The tiff2png command ends: call c raised or exited.
Tiff2pngCliEnds(c, r) ==
    /\ call' = c
    /\ ret' = [state |-> Outcome(r), error |-> r.error, tiff2png_calls |-> r.tiff2png_calls]
    /\ fs' = r.fs

Tiff2pngCli ==
    /\ Idle
    /\ \E input_tif \in ConvertInputPaths, truncated_value \in TruncatedValues,
          downsample \in Downsamples :
          Tiff2pngCliEnds(
              FileCall("tiff2png_cli", input_tif, "out.png", truncated_value, downsample),
              tiff2png_cli(fs, input_tif, "out.png", truncated_value, downsample))

\* The tiffinfo command ends: call c raised or exited.
TiffinfoCliEnds(c, r) ==
    /\ call' = c
    /\ ret' = [state |-> Outcome(r), error |-> r.error]
    /\ fs' = r.fs

TiffinfoCli ==
    /\ Idle
    /\ \E input_tif \in InspectInputPaths :
          TiffinfoCliEnds([op |-> "tiffinfo_cli", input_tif |-> input_tif, before |-> fs],
                          tiffinfo_cli(fs, input_tif))

NextCrop ==
    \/ Cutiff
    \/ ProcessTiffCropping
    \/ CutiffCli
    \/ Tiff2png
    \/ ProcessTiffConversion
    \/ Tiffinfo
    \/ AnalyzeTiffComprehensive
    \/ Tiff2pngCli
    \/ TiffinfoCli

SpecCrop == InitCrop /\ [][NextCrop]_vars

(***************************************************************************)
(* The conversion specification: one conversion or inspection of a raster  *)
(* of any projection and of bands that differ in content.                  *)
(***************************************************************************)
\* Band 1 of pattern k1, every other band of pattern k2.
PatternData(w, h, n, k1, k2) ==
    [b \in 1..n |-> PatternPlane(IF b = 1 THEN k1 ELSE k2, w, h)]

\* Rasters of every projection and geotransform, and north-up PROJ_LIN
\* rasters of every pair of band patterns.
ConvertRasters ==
    { Raster(w, h, n, "Byte", gt, proj, SourceData(w, h, n)) :
        w \in 1..MaxSize, h \in 1..MaxSize, n \in 1..MaxBands,
        gt \in GeoTransforms, proj \in Projections }
    \cup
    { Raster(2 * MaxSize, MaxSize, 1, "Byte", <<0, 1, 0, 0, 0, -1>>, "PROJ_LIN",
             SourceData(2 * MaxSize, MaxSize, 1)) }
    \cup
    { Raster(w, h, n, "Int16", <<0, 1, 0, 0, 0, -1>>, "PROJ_LIN", PatternData(w, h, n, k1, k2)) :
        w \in 1..MaxSize, h \in 1..MaxSize, n \in 1..MaxBands,
        k1 \in Patterns, k2 \in Patterns }

InitConvert ==
    /\ \E r \in ConvertRasters : fs = Files(r)
    /\ call = [op |-> "none"]
    /\ ret = [state |-> "idle"]

NextConvert ==
    \/ Tiff2png
    \/ ProcessTiffConversion
    \/ Tiffinfo
    \/ AnalyzeTiffComprehensive
    \/ Tiff2pngCli
    \/ TiffinfoCli

SpecConvert == InitConvert /\ [][NextConvert]_vars

(***************************************************************************)
(* The statistics specification: the statistics of one band, or the        *)
(* inspection, of a raster that may have a nodata value and statistics     *)
(* stored in its metadata.                                                 *)
(***************************************************************************)
\* Statistics stored in a band's metadata that are those of no band of the
\* model (written before the pixels last changed, or from a sample).
StoredStatistics == <<0, 1, [n |-> 1, d |-> 2], [n |-> 1, d |-> 4]>>

\* Nodata values: the value of the lower squares of a checkerboard band, and
\* the value of every pixel of a flat band.
NoDataValues == {PatternValue("checker", 1, 1), PatternValue("flat", 1, 1)}

\* What the metadata of band 1 stores: nothing, statistics, or statistics
\* marked approximate.
WithStored(r, stored) ==
    IF stored = "none" THEN r
    ELSE WithCachedStatistics(r, 1, StoredStatistics, stored = "approximate")

StatisticsRasters ==
    LET plain == { Raster(w, h, n, "Byte", <<0, 1, 0, 0, 0, -1>>, "PROJ_LIN",
                          PatternData(w, h, n, k1, k2)) :
                     w \in 1..MaxSize, h \in 1..MaxSize, n \in 1..MaxBands,
                     k1 \in Patterns, k2 \in Patterns }
        masked == plain \cup { WithNoData(r, v) : r \in plain, v \in NoDataValues }
    IN  { WithStored(r, stored) : r \in masked, stored \in {"none", "exact", "approximate"} }

InitStatistics ==
    /\ \E r \in StatisticsRasters : fs = Files(r)
    /\ call = [op |-> "none"]
    /\ ret = [state |-> "idle"]

GetBandStatistics ==
    /\ Idle
    /\ CanOpen(fs, "in.tif")
    /\ \E b \in 1..fs["in.tif"].count :
          LET r == _get_band_statistics(fs["in.tif"], b)
          IN  /\ call' = [op |-> "_get_band_statistics", input_tif |-> "in.tif", band |-> b,
                          before |-> fs]
              /\ ret' = [state |-> IF r.raised THEN "raised" ELSE "returned",
                         error |-> IF r.raised THEN "statistics" ELSE "",
                         request |-> StatisticsRequest, value |-> r.value]
              /\ fs' = [fs EXCEPT !["in.tif"].cached[b] = r.cached]

NextStatistics ==
    \/ GetBandStatistics
    \/ Tiffinfo
    \/ TiffinfoCli

SpecStatistics == InitStatistics /\ [][NextStatistics]_vars

(***************************************************************************)
(* The crop chain specification: a crop of a raster, then crops of the     *)
(* crop, each written to a file of its own.                                *)
(***************************************************************************)
\* Longest chain of crops.
MaxCrops == 2

\* Rasters of 12 by 22 pixels, large enough for the offsets below, under the
\* geotransforms in whole numbers and the ones in tenths.
ChainRasters ==
    { Raster(12, 22, 1, "Byte", gt, "PROJ_LIN", SourceData(12, 22, 1)) : gt \in GeoTransforms }
    \cup
    { RasterWith(12, 22, 1, "Byte", Tenths(gt), "PROJ_LIN", SourceData(12, 22, 1)) :
        gt \in FractionalGeoTransforms }

ChainOffsetsX == {0, 1, 5, 10}

ChainOffsetsY == {0, 1, 20}

InitChain ==
    /\ \E r \in ChainRasters : fs = Files(r)
    /\ call = [op |-> "none"]
    /\ ret = [state |-> "idle"]

\* The next crop of the chain: of in.tif the first time, then of the last
\* output; the window reaches the far corner of its input, or is one pixel.
CutiffNext ==
    /\ \/ Idle
       \/ call.op = "cutiff" /\ ret.state = "returned" /\ call.crops < MaxCrops
    /\ LET input_tif == IF Idle THEN "in.tif" ELSE call.output_tif
           output_tif == IF input_tif = "out.tif" THEN "out2.tif" ELSE "out.tif"
       IN  \E xoff \in ChainOffsetsX, yoff \in ChainOffsetsY, rest \in BOOLEAN :
              LET xsize == IF rest THEN fs[input_tif].width - xoff ELSE 1
                  ysize == IF rest THEN fs[input_tif].height - yoff ELSE 1
              IN  Ends([op |-> "cutiff", input_tif |-> input_tif,
                        output_tif |-> output_tif, xoff |-> xoff, yoff |-> yoff,
                        xsize |-> xsize, ysize |-> ysize, before |-> fs,
                        crops |-> IF Idle THEN 1 ELSE call.crops + 1,
                        sum_xoff |-> IF Idle THEN xoff ELSE call.sum_xoff + xoff,
                        sum_yoff |-> IF Idle THEN yoff ELSE call.sum_yoff + yoff,
                        original |-> IF Idle THEN fs ELSE call.original],
                       cutiff(fs, input_tif, output_tif, xoff, yoff, xsize, ysize))

NextChain == CutiffNext

SpecChain == InitChain /\ [][NextChain]_vars

(***************************************************************************)
(* The stretch specification: gray_process on one array.                   *)
(***************************************************************************)
\* Longest sample array.
MaxLen == 3

\* Sample values: small ones of both signs; ones whose stretch is a whole
\* number that float64 misses from below (53 of 0..95 stretched to 10..200 is
\* 116, computed as 115.99999999999999); and large ones one and two apart
\* (within and beyond the relative tolerance of numpy.isclose).
SmallSamples == {-1, 0, 3}

MiddleSamples == {0, 53, 95}

LargeSamples == {100000, 100001, 100002}

SeqsOver(S, n) == UNION {[1..k -> S] : k \in 1..n}

SampleArrays ==
    SeqsOver(SmallSamples, MaxLen) \cup SeqsOver(MiddleSamples, MaxLen)
        \cup SeqsOver(LargeSamples, MaxLen)

Percents == {0, 1, 25, 50, 75, 100}

\* <<min_out, max_out>>
OutRanges == {<<0, 255>>, <<10, 200>>, <<100, 101>>, <<255, 255>>}

NoFiles == [p \in Paths |-> NoFile]

InitStretch ==
    /\ fs = NoFiles
    /\ \E gray \in SampleArrays, truncated_value \in Percents, out \in OutRanges :
          call = [op |-> "gray_process", gray |-> gray, truncated_value |-> truncated_value,
                  max_out |-> out[2], min_out |-> out[1]]
    /\ ret = [state |-> "pending"]

GrayProcess ==
    /\ call.op = "gray_process"
    /\ ret.state = "pending"
    /\ ret' = [state |-> "returned",
               value |-> gray_process(call.gray, call.truncated_value,
                                      call.max_out, call.min_out)]
    /\ UNCHANGED <<fs, call>>

NextStretch == GrayProcess

SpecStretch == InitStretch /\ [][NextStretch]_vars

(***************************************************************************)
(* The reprojection specification: transform_projected_to_geographic on    *)
(* one raster's geotransform, projection and size.                         *)
(***************************************************************************)
InitReproject ==
    /\ fs = NoFiles
    /\ \E geotransform \in Float64GeoTransforms, projection \in Projections,
          width \in 1..MaxSize, height \in 1..MaxSize :
          call = [op |-> "transform_projected_to_geographic",
                  geotransform |-> geotransform, projection |-> projection,
                  width |-> width, height |-> height]
    /\ ret = [state |-> "pending"]

TransformProjectedToGeographic ==
    /\ call.op = "transform_projected_to_geographic"
    /\ ret.state = "pending"
    /\ ret' = [state |-> "returned",
               value |-> transform_projected_to_geographic(call.geotransform, call.projection,
                                                           call.width, call.height)]
    /\ UNCHANGED <<fs, call>>

NextReproject == TransformProjectedToGeographic

SpecReproject == InitReproject /\ [][NextReproject]_vars

(***************************************************************************)
(* The point specification: the reprojection of one projected point.       *)
(***************************************************************************)
\* Abscissas and ordinates of the points; 1 is on the singular line of
\* PROJ_SING.
PointCoordinates == -1..MaxSize

InitPoint ==
    /\ fs = NoFiles
    /\ \E op \in {"transform_point_to_geographic", "projected_to_geographic", "xy_to_lonlat"},
          x \in PointCoordinates, y \in PointCoordinates, projection \in Projections :
          call = [op |-> op, x |-> x, y |-> y, projection |-> projection,
                  dataset |-> Raster(1, 1, 1, "Byte", <<0, 1, 0, 0, 0, -1>>, projection,
                                     SourceData(1, 1, 1))]
    /\ ret = [state |-> "pending"]

TransformPointToGeographic ==
    /\ call.op = "transform_point_to_geographic"
    /\ ret.state = "pending"
    /\ LET r == transform_point_to_geographic(call.x, call.y, call.projection)
       IN  ret' = [state |-> IF r.raised THEN "raised" ELSE "returned", value |-> r.value]
    /\ UNCHANGED <<fs, call>>

ProjectedToGeographic ==
    /\ call.op = "projected_to_geographic"
    /\ ret.state = "pending"
    /\ LET r == projected_to_geographic(call.x, call.y, call.dataset)
       IN  ret' = [state |-> IF r.raised THEN "raised" ELSE "returned", value |-> r.value,
                   calls |-> r.calls]
    /\ UNCHANGED <<fs, call>>

XyToLonlat ==
    /\ call.op = "xy_to_lonlat"
    /\ ret.state = "pending"
    /\ LET r == xy_to_lonlat(call.x, call.y, call.projection)
       IN  ret' = [state |-> IF r.raised THEN "raised" ELSE "returned", error |-> r.error,
                   value |-> r.value]
    /\ UNCHANGED <<fs, call>>

NextPoint ==
    \/ TransformPointToGeographic
    \/ ProjectedToGeographic
    \/ XyToLonlat

SpecPoint == InitPoint /\ [][NextPoint]_vars

(***************************************************************************)
(* The estimator specification: calculate_projected_distance_and_area on   *)
(* one info dictionary.                                                    *)
(***************************************************************************)
\* Projection strings given to the estimator: those of the reprojector and a
\* geographic system (angular unit).
EstimatorProjections == Projections \cup {"GEOGCS"}

\* The raster of scenario A: 100 x 100 pixels of 10 units.
ScenarioGeoTransform == Coefficients(<<500000, 10, 0, 4000000, 0, -10>>)

\* Bounds in whole degrees, as float64.
Bounds(west, east, south, north) ==
    [west |-> Float64(west), east |-> Float64(east),
     south |-> Float64(south), north |-> Float64(north)]

\* GeographicBounds of the info dictionary: none, scenario D, and bounds
\* centred on latitudes 60, -60, 0 and 90.
BoundsChoices ==
    { None,
      Some(Bounds(-1, 1, -1, 1)),
      Some(Bounds(10, 14, 59, 61)),
      Some(Bounds(10, 14, -61, -59)),
      Some(Bounds(-3, 5, -90, 90)),
      Some(Bounds(10, 14, 89, 91)) }

\* GeographicCenter of the info dictionary.
CenterChoices ==
    { None,
      Some([longitude |-> Float64(0), latitude |-> Float64(0)]),
      Some([longitude |-> Float64(12), latitude |-> Float64(60)]) }

\* Geotransforms given to the estimator: those of the rasters, and pixels of
\* 0.1 by -0.1 at the far origin (500000.3, 4000000.7).
EstimatorGeoTransforms ==
    Float64GeoTransforms \cup {Tenths(<<5000003, 1, 0, 40000007, 0, -1>>)}

Info(geotransform, projection, width, height, bounds, center) ==
    [GeoTransform |-> geotransform, Projection |-> projection,
     RasterXSize |-> width, RasterYSize |-> height,
     GeographicBounds |-> bounds, GeographicCenter |-> center]

\* Small rasters under every projection, without a georeference too, and the
\* scenario raster under the metre projection, the unparseable one and none.
EstimatorInfos ==
    { Info(g, p, w, h, b, c) :
        g \in EstimatorGeoTransforms \cup {<<>>}, p \in EstimatorProjections,
        w \in 1..MaxSize, h \in 1..MaxSize, b \in BoundsChoices, c \in CenterChoices }
    \cup
    { Info(ScenarioGeoTransform, p, 100, 100, b, c) :
        p \in {"PROJ_LIN", "BAD_WKT", ""}, b \in BoundsChoices, c \in CenterChoices }

InitEstimate ==
    /\ fs = NoFiles
    /\ \E info \in EstimatorInfos :
          call = [op |-> "calculate_projected_distance_and_area", info |-> info]
    /\ ret = [state |-> "pending"]

CalculateProjectedDistanceAndArea ==
    /\ call.op = "calculate_projected_distance_and_area"
    /\ ret.state = "pending"
    /\ LET r == calculate_projected_distance_and_area(call.info)
       IN  ret' = [state |-> "returned", unit_lookups |-> r.unit_lookups, value |-> r.value]
    /\ UNCHANGED <<fs, call>>

NextEstimate == CalculateProjectedDistanceAndArea

SpecEstimate == InitEstimate /\ [][NextEstimate]_vars

(***************************************************************************)
(* Properties of the crop (SpecCrop).                                      *)
(***************************************************************************)
\* The raster the finished call read, as it was before the call.
SourceBefore == call.before[call.input_tif]

\* The finished call is a crop operation whose input could be opened.
CropOf(op) == call.op = op /\ CanOpen(call.before, call.input_tif)

\* The requested window exceeds the source extent.
WindowExceeds ==
    \/ call.xoff + call.xsize > SourceBefore.width
    \/ call.yoff + call.ysize > SourceBefore.height

\* The requested window is not empty and lies inside the source.
WindowInRange ==
    /\ call.xoff >= 0 /\ call.yoff >= 0 /\ call.xsize >= 1 /\ call.ysize >= 1
    /\ call.xoff + call.xsize <= SourceBefore.width
    /\ call.yoff + call.ysize <= SourceBefore.height

\* The requested window is empty: no size is negative and one is zero.
WindowEmpty ==
    /\ call.xsize >= 0 /\ call.ysize >= 0
    /\ call.xsize = 0 \/ call.ysize = 0

\* A file apart from the statistics stored with it.
WithoutStatistics(file) ==
    IF file.kind = "raster"
    THEN [file EXCEPT !.cached = [b \in 1..file.count |-> None]]
    ELSE file

\* Two file systems hold the same files, stored statistics apart.
SameFiles(f, g) == \A p \in Paths : WithoutStatistics(f[p]) = WithoutStatistics(g[p])

\* C1: the geotransform cutiff writes has its origin at the projected
\* coordinate of source pixel (xoff, yoff), skew terms included:
\* originX + xoff*pixelWidth + yoff*rowSkew, originY + xoff*colSkew + yoff*pixelHeight.
C1_OriginAdvancedWithSkew ==
    (CropOf("cutiff") /\ ret.state = "returned") =>
        LET g == SourceBefore.gt
            out == fs[call.output_tif].gt
        IN  /\ out[1] = PixelToProj(g[1], g[2], g[3], Float64(call.xoff), Float64(call.yoff))
            /\ out[4] = PixelToProj(g[4], g[5], g[6], Float64(call.xoff), Float64(call.yoff))

\* C2: an out-of-range window never keeps process_tiff_cropping or the
\* cutiff command from invoking cutiff, and the operation then fails only by
\* that invocation's read error.
C2_ViolationNeverBlocksCrop ==
    ((CropOf("process_tiff_cropping") \/ CropOf("cutiff_cli")) /\ WindowExceeds) =>
        /\ ret.cutiff_calls = 1
        /\ ret.state = "raised" => ret.error = "read"

\* C10: an in-range crop of an openable raster returns, and band b of the
\* output holds at (col, row) the value of source band b at
\* (xoff + col, yoff + row), for every band of the source.
C10_SameWindowEveryBand ==
    (CropOf("cutiff") /\ WindowInRange) =>
        /\ ret.state = "returned"
        /\ LET out == fs[call.output_tif]
           IN  /\ DOMAIN out.data = 1..SourceBefore.count
               /\ \A b \in 1..SourceBefore.count :
                     /\ DOMAIN out.data[b] = 1..call.ysize
                     /\ \A r \in 1..call.ysize :
                           /\ DOMAIN out.data[b][r] = 1..call.xsize
                           /\ \A c \in 1..call.xsize :
                                 out.data[b][r][c] =
                                     SourceBefore.data[b][call.yoff + r][call.xoff + c]

\* C10 witness: a two-band raster cropped at a non-zero offset in both axes.
C10_Witness ==
    /\ CropOf("cutiff")
    /\ WindowInRange
    /\ SourceBefore.count = 2
    /\ call.xoff = 1 /\ call.yoff = 1
    /\ ret.state = "returned"
    /\ fs[call.output_tif].data[2][1][1] = SourceBefore.data[2][2][2]

\* C11: the raster cutiff writes has width xsize and height ysize, the band
\* count, pixel data type and projection of the source, and the source's
\* pixelWidth, rowSkew, colSkew and pixelHeight; only the origin may differ.
C11_OutputFrame ==
    (CropOf("cutiff") /\ ret.state = "returned") =>
        LET out == fs[call.output_tif]
        IN  /\ out.kind = "raster"
            /\ out.width = call.xsize /\ out.height = call.ysize
            /\ out.count = SourceBefore.count
            /\ out.dtype = SourceBefore.dtype
            /\ out.proj = SourceBefore.proj
            /\ out.gt[2] = SourceBefore.gt[2] /\ out.gt[3] = SourceBefore.gt[3]
            /\ out.gt[5] = SourceBefore.gt[5] /\ out.gt[6] = SourceBefore.gt[6]

\* C11 witness: a crop, smaller than its source and off the origin, of a
\* two-band Int16 raster with skew in PROJ_ROT, written to another file.
C11_Witness ==
    /\ CropOf("cutiff")
    /\ ret.state = "returned"
    /\ call.output_tif = "out.tif"
    /\ call.xoff = 1 /\ call.xsize < SourceBefore.width
    /\ SourceBefore.count = 2 /\ SourceBefore.dtype = "Int16"
    /\ SourceBefore.gt[3] # Float64Zero /\ SourceBefore.gt[5] # Float64Zero
    /\ fs["out.tif"].dtype = "Int16" /\ fs["out.tif"].proj = "PROJ_ROT"
    /\ fs["out.tif"].gt[3] = SourceBefore.gt[3]

\* The finished call is one of the five operations on a source that cannot be
\* opened.
OpenFails ==
    /\ call.op \in {"cutiff", "tiff2png", "tiffinfo", "process_tiff_cropping",
                    "process_tiff_conversion"}
    /\ ~CanOpen(call.before, call.input_tif)

\* What the finished call returned: nothing when it raised.
Returned ==
    IF call.op \in {"cutiff", "tiff2png"} THEN ret.value
    ELSE IF call.op = "tiffinfo" THEN ret.info
    ELSE ret.result

\* C17: when the source cannot be opened, cutiff, tiff2png, tiffinfo,
\* process_tiff_cropping and process_tiff_conversion raise the open error,
\* return nothing, and leave every file as it was: no output is written.
C17_UnopenableSourceAborts ==
    OpenFails =>
        /\ ret.state = "raised"
        /\ ret.error = "open"
        /\ Returned = None
        /\ fs = call.before
        /\ (call.op # "tiffinfo" /\ call.before[call.output_tif] = NoFile) =>
              fs[call.output_tif] = NoFile

\* C17 witness: process_tiff_conversion of a file that is no raster raised and
\* left no PNG.
C17_Witness ==
    /\ call.op = "process_tiff_conversion"
    /\ call.input_tif = "bad.tif"
    /\ ret.state = "raised"
    /\ fs["out.png"] = NoFile

\* The finished call is a cutiff or a tiff2png whose source opens and whose
\* pixel read returns no data: the file holds no pixel data, or (cutiff) the
\* window is not inside the raster or has a negative size.  The read of an
\* empty window returns an empty array.
ReadFails ==
    \/ /\ CropOf("cutiff")
       /\ ~WindowEmpty
       /\ SourceBefore.data = <<>> \/ ~WindowInRange
    \/ /\ CropOf("tiff2png")
       /\ SourceBefore.data = <<>>

\* C18: when the pixel read returns no data, cutiff and tiff2png raise the
\* read error and every file is as it was: cutiff has created no output
\* dataset and tiff2png has written no PNG.
C18_UnreadablePixelsAbort ==
    ReadFails =>
        /\ ret.state = "raised"
        /\ ret.error = "read"
        /\ fs = call.before
        /\ call.before[call.output_tif] = NoFile => fs[call.output_tif] = NoFile

\* C18 witness: tiff2png of a raster cut short raised the read error and
\* wrote no PNG.
C18_Witness ==
    /\ CropOf("tiff2png")
    /\ call.input_tif = "trunc.tif"
    /\ ret.state = "raised" /\ ret.error = "read"
    /\ fs["out.png"] = NoFile

(***************************************************************************)
(* Properties of the reprojection (SpecReproject).                         *)
(***************************************************************************)
Reprojected == call.op = "transform_projected_to_geographic" /\ ret.state = "returned"

\* The projected coordinates of pixel-space point (col, row), from the affine
\* model of spec 3 in float64: x = originX + col*pixelWidth + row*rowSkew,
\* y = originY + col*colSkew + row*pixelHeight.
AffineX(g, col, row) ==
    Float64Add(Float64Add(g[1], Float64Mul(col, g[2])), Float64Mul(row, g[3]))

AffineY(g, col, row) ==
    Float64Add(Float64Add(g[4], Float64Mul(col, g[5])), Float64Mul(row, g[6]))

\* The reprojection of pixel-space point (col, row) of the call.
Reprojection(col, row) ==
    TransformPoint(call.projection,
                   AffineX(call.geotransform, col, row),
                   AffineY(call.geotransform, col, row))

\* The four corners of the call's raster, in pixel coordinates.
Corners ==
    { <<Float64(0), Float64(0)>>, <<Float64(call.width), Float64(0)>>,
      <<Float64(call.width), Float64(call.height)>>, <<Float64(0), Float64(call.height)>> }

\* Half of a whole number, in float64.
HalfOf(n) == Float64Div(Float64(n), Float64(2))

\* C3: transform_projected_to_geographic returns geographic_bounds and
\* geographic_center both None or both present, whatever step failed.
C3_BothOrNeither ==
    Reprojected => (ret.value.geographic_bounds.some = ret.value.geographic_center.some)

\* The call succeeded in full: bounds and center are both present.
ReprojectedFully ==
    /\ Reprojected
    /\ ret.value.geographic_bounds.some
    /\ ret.value.geographic_center.some

\* C8: whenever bounds are returned they are the min/max reduction of the
\* four reprojected corners: west <= east, south <= north, every corner
\* longitude in [west, east] and latitude in [south, north], and each of the
\* four bounds is attained by a corner.
C8_BoundsAreMinMaxOfCorners ==
    (Reprojected /\ ret.value.geographic_bounds.some) =>
        LET b == ret.value.geographic_bounds.v
            geo == {Reprojection(c[1], c[2]) : c \in Corners}
        IN  /\ Float64LessEq(b.west, b.east)
            /\ Float64LessEq(b.south, b.north)
            /\ \A t \in geo : /\ t.ok
                              /\ Float64LessEq(b.west, t.lon) /\ Float64LessEq(t.lon, b.east)
                              /\ Float64LessEq(b.south, t.lat) /\ Float64LessEq(t.lat, b.north)
            /\ \E t \in geo : t.lon = b.west
            /\ \E t \in geo : t.lon = b.east
            /\ \E t \in geo : t.lat = b.south
            /\ \E t \in geo : t.lat = b.north

\* C8 witness: bounds of a skewed raster whose western and northern edges are
\* not at the reprojected upper-left corner.
C8_Witness ==
    /\ Reprojected
    /\ ret.value.geographic_bounds.some
    /\ call.geotransform[3] # Float64Zero
    /\ Float64Less(ret.value.geographic_bounds.v.west,
                   Reprojection(Float64(0), Float64(0)).lon)
    /\ Float64Less(Reprojection(Float64(0), Float64(0)).lat,
                   ret.value.geographic_bounds.v.north)

\* C9: the center returned is the CRS transform of the affine image of the
\* pixel-space point (width/2, height/2): a function of the geotransform, the
\* size and the transform alone, not of the corners or the bounds.
C9_CenterIsReprojectedPixelCenter ==
    (Reprojected /\ ret.value.geographic_center.some) =>
        LET t == Reprojection(HalfOf(call.width), HalfOf(call.height))
        IN  /\ t.ok
            /\ ret.value.geographic_center.v = [longitude |-> t.lon, latitude |-> t.lat]

\* C9 witness: a center that is not the midpoint of the returned bounds.
C9_Witness ==
    /\ ReprojectedFully
    /\ Float64Mul(Float64(2), ret.value.geographic_center.v.longitude) #
           Float64Add(ret.value.geographic_bounds.v.west, ret.value.geographic_bounds.v.east)
    /\ Float64Mul(Float64(2), ret.value.geographic_center.v.latitude) #
           Float64Add(ret.value.geographic_bounds.v.south, ret.value.geographic_bounds.v.north)

(***************************************************************************)
(* Properties of the stretch (SpecStretch).                                *)
(***************************************************************************)
Stretched == call.op = "gray_process" /\ ret.state = "returned"

\* The percentile q of the sorted samples as a number, times 100: linear
\* interpolation between the order statistics around position
\* q / 100 * (n - 1) (a multiple of 1/100 for integer samples and percents).
Percentile100(sorted, q) ==
    LET n == Len(sorted)
        pos == q * (n - 1)
        i == pos \div 100
        g == pos % 100
        below == sorted[i + 1]
        above == sorted[IF i + 2 <= n THEN i + 2 ELSE n]
    IN  100 * below + (above - below) * g

\* The two percentiles of the call's samples, times 100.
Lo100 == Percentile100(SortAscending(call.gray), call.truncated_value)

Hi100 == Percentile100(SortAscending(call.gray), 100 - call.truncated_value)

\* All samples are equal.
AllEqual == \A i, j \in DOMAIN call.gray : call.gray[i] = call.gray[j]

\* Every element of the result is the value k.
FilledWith(k) ==
    /\ DOMAIN ret.value = DOMAIN call.gray
    /\ \A i \in DOMAIN ret.value : ret.value[i] = k

\* Output k is the linear map of sample v, clamped to [min_out, max_out] and
\* then truncated: with n / d = (v - lo) / (hi - lo), d > 0.
TruncatedLinear(v, k) ==
    LET d == Abs(Hi100 - Lo100)
        n == IF Hi100 > Lo100 THEN 100 * v - Lo100 ELSE Lo100 - 100 * v
        range == call.max_out - call.min_out
    IN  /\ call.min_out <= k /\ k <= call.max_out
        /\ n <= 0 => k = call.min_out
        /\ n >= d => k = call.max_out
        /\ (0 < n /\ n < d) =>
              /\ d * (k - call.min_out) <= n * range
              /\ n * range < d * (k - call.min_out + 1)

\* C4: every element gray_process returns lies in [min_out, max_out].
C4_OutputInRange ==
    Stretched =>
        /\ DOMAIN ret.value = DOMAIN call.gray
        /\ \A i \in DOMAIN ret.value :
              call.min_out <= ret.value[i] /\ ret.value[i] <= call.max_out

\* C4 witness: the linear branch between the percentiles 26.5 and 74 of
\* 0, 53, 95 with the range 10..200: 0 is clamped to 10, 95 to 200 and 53 is
\* mapped strictly inside the range.
C4_Witness ==
    /\ Stretched
    /\ call.gray = <<0, 53, 95>> /\ call.truncated_value = 25
    /\ call.min_out = 10 /\ call.max_out = 200
    /\ ret.value[1] = 10 /\ ret.value[3] = 200
    /\ 10 < ret.value[2] /\ ret.value[2] < 200

\* C5: an array whose samples are all equal is returned as an array of the
\* same shape filled with min_out.
C5_ConstantGivesMinOut ==
    (Stretched /\ AllEqual) => FilledWith(call.min_out)

\* C5 witness: the all-zero array at truncated_value 1 returned all zero
\* (scenario B), with the default output range.
C5_Witness ==
    /\ Stretched
    /\ Len(call.gray) = MaxLen
    /\ \A i \in DOMAIN call.gray : call.gray[i] = 0
    /\ call.truncated_value = 1 /\ call.min_out = 0 /\ call.max_out = 255
    /\ FilledWith(0)

\* C6: samples that are not all equal, however small the spread, and whose
\* two percentiles coincide give the array filled with
\* (max_out + min_out) // 2.
C6_AnySpreadGivesMidGray ==
    (Stretched /\ ~AllEqual /\ Lo100 = Hi100) =>
        FilledWith((call.max_out + call.min_out) \div 2)

\* C7: when the samples are not all equal and hi # lo, each output is the
\* linear map clamped and truncated, samples <= lo give min_out and samples
\* >= hi give max_out.
C7_LinearWheneverDistinct ==
    (Stretched /\ ~AllEqual /\ Hi100 # Lo100) =>
        /\ DOMAIN ret.value = DOMAIN call.gray
        /\ \A i \in DOMAIN call.gray :
              /\ TruncatedLinear(call.gray[i], ret.value[i])
              /\ 100 * call.gray[i] <= Lo100 => ret.value[i] = call.min_out
              /\ 100 * call.gray[i] >= Hi100 => ret.value[i] = call.max_out

(***************************************************************************)
(* Properties of the estimator (SpecEstimate).                             *)
(***************************************************************************)
Estimated == call.op = "calculate_projected_distance_and_area" /\ ret.state = "returned"

\* A georeference and a projection are both present in the info dictionary.
MetadataPresent == call.info.GeoTransform # <<>> /\ call.info.Projection # ""

\* The CRS unit lookup of the call's projection returns normally.
LookupReturns == LinearUnits(call.info.Projection).ok

\* Every coefficient is a whole number.
WholeNumbered(gt) == \A i \in DOMAIN gt : Float64(Float64Trunc(gt[i])) = gt[i]

\* The float64 n / d.
Ratio(n, d) == Float64Div(Float64(n), Float64(d))

\* x and y differ by no more than 2^-49 (under 2e-15) times the scale.
Near(x, y, scale) ==
    Float64LessEq(Float64Abs(Float64Sub(x, y)),
                  Float64Mul(Float64Of(FALSE, <<1>>, -49), Float64Abs(scale)))

\* |count * size| * unit / 1000 in float64, each operation rounded once.
IdealSpanKm(count, size, unit) ==
    Float64Div(Float64Mul(Float64Abs(Float64Mul(Float64(count), size)), unit), Float64(1000))

\* The primary path was taken: the lookup was consulted and returned.
OnPrimaryPath == Estimated /\ MetadataPresent /\ LookupReturns

\* The fallback path was taken with bounds: the lookup raised and
\* GeographicBounds is available.
OnFallbackPath ==
    Estimated /\ MetadataPresent /\ ~LookupReturns /\ call.info.GeographicBounds.some

\* C12 as stated: on the primary path x_span_km =
\* |width*pixelWidth|*unitToMeter/1000, y_span_km =
\* |height*pixelHeight|*unitToMeter/1000, area_km2 is their product, all
\* non-negative; scenario A gives 1, 1 and 1.
C12_PrimarySpans ==
    OnPrimaryPath =>
        LET g == call.info.GeoTransform
            u == LinearUnits(call.info.Projection).to_meter
            x == ret.value.x_span_km
            y == ret.value.y_span_km
            a == ret.value.area_km2
        IN  /\ x.some /\ y.some /\ a.some
            /\ x.v = IdealSpanKm(call.info.RasterXSize, g[2], u)
            /\ y.v = IdealSpanKm(call.info.RasterYSize, g[6], u)
            /\ a.v = Float64Mul(x.v, y.v)
            /\ Float64Sign(x.v) >= 0 /\ Float64Sign(y.v) >= 0 /\ Float64Sign(a.v) >= 0
            /\ (g = ScenarioGeoTransform /\ call.info.RasterXSize = 100
                  /\ call.info.RasterYSize = 100 /\ u = Float64(1)) =>
                  x.v = Float64(1) /\ y.v = Float64(1) /\ a.v = Float64(1)

\* C12, amended: on the primary path the spans are the differences of the
\* raster's edges, x_span = |(originX + width*pixelWidth) - originX| and
\* y_span = |originY - (originY + height*pixelHeight)|, with x_span_km =
\* x_span * unitToMeter / 1000, y_span_km likewise and area_km2 = x_span *
\* y_span * unitToMeter * unitToMeter / 1000000, each operation in float64.
\* x_span is |width*pixelWidth| and y_span is |height*pixelHeight| up to the
\* rounding of the edges (2e-15 times the magnitude of the edges), and
\* exactly when the coefficients are whole numbers; area_km2 is
\* x_span_km*y_span_km up to a relative 2e-15; all are non-negative;
\* scenario A gives exactly 1, 1 and 1.
C12_PrimarySpansUpToRounding ==
    OnPrimaryPath =>
        LET g == call.info.GeoTransform
            u == LinearUnits(call.info.Projection).to_meter
            x == ret.value.x_span_km
            y == ret.value.y_span_km
            a == ret.value.area_km2
            x_span == ret.value.x_span_original
            y_span == ret.value.y_span_original
            across == Float64Mul(Float64(call.info.RasterXSize), g[2])
            down == Float64Mul(Float64(call.info.RasterYSize), g[6])
        IN  /\ x.some /\ y.some /\ a.some
            /\ x_span = Float64Abs(Float64Sub(Float64Add(g[1], across), g[1]))
            /\ y_span = Float64Abs(Float64Sub(g[4], Float64Add(g[4], down)))
            /\ Near(x_span, Float64Abs(across), Float64Add(Float64Abs(g[1]), Float64Abs(across)))
            /\ Near(y_span, Float64Abs(down), Float64Add(Float64Abs(g[4]), Float64Abs(down)))
            /\ WholeNumbered(g) => x_span = Float64Abs(across) /\ y_span = Float64Abs(down)
            /\ x.v = Float64Div(Float64Mul(x_span, u), Float64(1000))
            /\ y.v = Float64Div(Float64Mul(y_span, u), Float64(1000))
            /\ a.v = Float64Div(Float64Mul(Float64Mul(Float64Mul(x_span, y_span), u), u),
                                Float64(1000000))
            /\ Near(a.v, Float64Mul(x.v, y.v), a.v)
            /\ Float64Sign(x.v) >= 0 /\ Float64Sign(y.v) >= 0 /\ Float64Sign(a.v) >= 0
            /\ (g = ScenarioGeoTransform /\ call.info.RasterXSize = 100
                  /\ call.info.RasterYSize = 100 /\ u = Float64(1)) =>
                  x.v = Float64(1) /\ y.v = Float64(1) /\ a.v = Float64(1)

\* C12 witness: one pixel of one nautical mile: the spans are 1.852 km, and
\* the area returned is not the float64 product of the two spans.
C12_Witness ==
    /\ OnPrimaryPath
    /\ call.info.Projection = "PROJ_SING"
    /\ call.info.GeoTransform = Coefficients(<<0, 1, 0, 0, 0, -1>>)
    /\ call.info.RasterXSize = 1 /\ call.info.RasterYSize = 1
    /\ ret.value.x_span_km.v = Ratio(1852, 1000)
    /\ ret.value.y_span_km.v = Ratio(1852, 1000)
    /\ ret.value.area_km2.v = Ratio(3429904, 1000000)
    /\ ret.value.area_km2.v # Float64Mul(ret.value.x_span_km.v, ret.value.y_span_km.v)

\* Scenario A under the metre projection returned spans of 1 km and an area
\* of 1 km2.
ScenarioAReturned ==
    /\ OnPrimaryPath
    /\ call.info.GeoTransform = ScenarioGeoTransform
    /\ call.info.Projection = "PROJ_LIN"
    /\ ret.value.x_span_km.v = Float64(1)
    /\ ret.value.y_span_km.v = Float64(1)
    /\ ret.value.area_km2.v = Float64(1)

\* The result carries the key unit_to_meter.
HasUnitToMeter == "unit_to_meter" \in DOMAIN ret.value

\* C13: with georeference and projection present, the result is the primary
\* one (unit_to_meter not None) whenever the unit lookup returns, whatever
\* the unit, and the fallback one (unit_to_meter None) exactly when the
\* lookup raised and GeographicBounds is available.
C13_FallbackIffLookupRaises ==
    (Estimated /\ MetadataPresent) =>
        /\ ret.unit_lookups = 1
        /\ LookupReturns =>
              /\ HasUnitToMeter
              /\ ret.value.unit_to_meter = Some(LinearUnits(call.info.Projection).to_meter)
              /\ ret.value.x_span_km.some
        /\ (HasUnitToMeter /\ ret.value.unit_to_meter = None) <=>
              (~LookupReturns /\ call.info.GeographicBounds.some)
        /\ (~LookupReturns /\ ~call.info.GeographicBounds.some) =>
              (~HasUnitToMeter /\ ~ret.value.x_span_km.some)

\* C13 witness: a projection whose unit has no name, with GeographicBounds
\* available, gave the primary result under the unknown-unit name.
C13_Witness ==
    /\ OnPrimaryPath
    /\ LinearUnits(call.info.Projection).name = ""
    /\ call.info.GeographicBounds.some
    /\ ret.value.unit_to_meter = Some(Float64(1))
    /\ ret.value.unit_name = UnknownUnit

\* cos(radians(lat)) in float64, at latitudes 0, +-60 and +-90: 1.0,
\* 0.5000000000000001 and 6.123233995736766e-17.
CosineAt(lat) ==
    IF lat = Float64Zero THEN Float64(1)
    ELSE IF lat = Float64(60) \/ lat = Float64(-60)
    THEN Float64Add(Ratio(1, 2), Float64Of(FALSE, <<1>>, -53))
    ELSE Float64Exact(FALSE, <<7175, 3153, 8803, 1129>>, -106)

\* C14: on the fallback path y_span_km = (north-south)*111,
\* x_span_km = (east-west)*111*cos(radians(center latitude)) with the center
\* latitude (north+south)/2, and area_km2 = x_span_km*y_span_km, in float64;
\* scenario D gives 222 and 222.
C14_FallbackSpans ==
    OnFallbackPath =>
        LET b == call.info.GeographicBounds.v
            k == CosineAt(Float64Div(Float64Add(b.north, b.south), Float64(2)))
            x == ret.value.x_span_km
            y == ret.value.y_span_km
            a == ret.value.area_km2
        IN  /\ x.some /\ y.some /\ a.some
            /\ y.v = Float64Mul(Float64Sub(b.north, b.south), Float64(111))
            /\ x.v = Float64Mul(Float64Mul(Float64Sub(b.east, b.west), Float64(111)), k)
            /\ a.v = Float64Mul(x.v, y.v)
            /\ (b = Bounds(-1, 1, -1, 1)) => y.v = Float64(222) /\ x.v = Float64(222)

\* C14 witness: bounds 4 degrees wide and 2 high centred on latitude 60: the
\* y span is 222 km and the x span, halved by the float64 cosine, is
\* 222.00000000000006 (222 + 2^-44).
C14_Witness ==
    /\ OnFallbackPath
    /\ call.info.GeographicBounds.v.south = Float64(59)
    /\ ret.value.y_span_km.v = Float64(222)
    /\ ret.value.x_span_km.v = Float64Add(Float64(222), Float64Of(FALSE, <<1>>, -44))

\* C15 as stated: on the fallback path the cosine correction is taken at the
\* latitude of GeographicCenter.
C15_CosineAtGeographicCenter ==
    (OnFallbackPath /\ call.info.GeographicCenter.some) =>
        LET b == call.info.GeographicBounds.v
            k == CosineAt(call.info.GeographicCenter.v.latitude)
        IN  ret.value.x_span_km.v
               = Float64Mul(Float64Mul(Float64Sub(b.east, b.west), Float64(111)), k)

\* C15, amended: on the fallback path the cosine correction is taken at the
\* middle latitude (north+south)/2 of GeographicBounds; GeographicCenter is
\* not read, so the result is the same whatever GeographicCenter is.
C15_CosineAtMiddleOfBounds ==
    OnFallbackPath =>
        LET b == call.info.GeographicBounds.v
            k == CosineAt(Float64Div(Float64Add(b.north, b.south), Float64(2)))
        IN  /\ ret.value.x_span_km.v
                  = Float64Mul(Float64Mul(Float64Sub(b.east, b.west), Float64(111)), k)
            /\ \A c \in CenterChoices :
                  calculate_projected_distance_and_area(
                      [call.info EXCEPT !.GeographicCenter = c]).value = ret.value

\* C15 witness: bounds centred on the equator with GeographicCenter at
\* latitude 60: the x span is not halved.
C15_Witness ==
    /\ OnFallbackPath
    /\ call.info.GeographicBounds.v.south = Float64(-90)
    /\ call.info.GeographicCenter.some
    /\ call.info.GeographicCenter.v.latitude = Float64(60)
    /\ ret.value.x_span_km.v = Float64(888)

\* C16: with neither a georeference nor a projection the result holds
\* x_span_km, y_span_km and area_km2 None and the unknown-unit name, and the
\* CRS unit lookup was not consulted.
C16_NothingWithoutMetadata ==
    (Estimated /\ call.info.GeoTransform = <<>> /\ call.info.Projection = "") =>
        /\ ret.value.x_span_km = None
        /\ ret.value.y_span_km = None
        /\ ret.value.area_km2 = None
        /\ ret.value.unit_name = UnknownUnit
        /\ ret.unit_lookups = 0

\* C16 witness: no georeference and no projection, GeographicBounds known all
\* the same, and no spans returned.
C16_Witness ==
    /\ Estimated
    /\ call.info.GeoTransform = <<>>
    /\ call.info.Projection = ""
    /\ call.info.GeographicBounds.some
    /\ ret.value.x_span_km = None
    /\ ret.unit_lookups = 0

(***************************************************************************)
(* Properties of the conversion and inspection (SpecConvert).              *)
(***************************************************************************)
\* The finished call is an analysis of an openable raster on which the
\* reprojection fails and the CRS unit lookup raises.
BothRecoverableFailures ==
    /\ CropOf("analyze_tiff_comprehensive")
    /\ SourceBefore.proj # ""
    /\ ~LinearUnits(SourceBefore.proj).ok
    /\ transform_projected_to_geographic(SourceBefore.gt, SourceBefore.proj,
                                         SourceBefore.width, SourceBefore.height)
          = [geographic_bounds |-> None, geographic_center |-> None]

\* C19: when the reprojection fails and the unit lookup raises,
\* analyze_tiff_comprehensive returns: GeographicBounds, GeographicCenter, the
\* two formatted strings and the three spans are None, and the raster size,
\* band count and data type are those of the raster.
C19_PartialMetadata ==
    BothRecoverableFailures =>
        /\ ret.state = "returned"
        /\ ret.analysis.some
        /\ LET a == ret.analysis.v
           IN  /\ a.tiff_info.GeographicBounds = None
               /\ a.tiff_info.GeographicCenter = None
               /\ a.coordinates.bounds_str = None
               /\ a.coordinates.center_str = None
               /\ a.distance_area.x_span_km = None
               /\ a.distance_area.y_span_km = None
               /\ a.distance_area.area_km2 = None
               /\ a.tiff_info.RasterXSize = SourceBefore.width
               /\ a.tiff_info.RasterYSize = SourceBefore.height
               /\ a.tiff_info.RasterCount = SourceBefore.count
               /\ a.tiff_info.DataType = SourceBefore.dtype

\* C19 witness: the analysis of a two-band raster whose projection does not
\* parse returned without bounds and without spans.
C19_Witness ==
    /\ BothRecoverableFailures
    /\ SourceBefore.proj = "BAD_WKT"
    /\ SourceBefore.count = 2
    /\ ret.state = "returned"
    /\ ret.analysis.v.tiff_info.RasterCount = 2
    /\ ret.analysis.v.distance_area.area_km2 = None

\* The stretch of one band of the source, as an image.
StretchOfBand(b) ==
    Reshape(Stretch(Flat(SourceBefore.data[b], SourceBefore.width, SourceBefore.height),
                    call.truncated_value),
            SourceBefore.width, SourceBefore.height)

\* The source with every band but the first replaced by pattern k.
OtherBandsReplaced(k) ==
    [call.before EXCEPT ![call.input_tif].data =
        [b \in 1..SourceBefore.count |->
            IF b = 1 THEN SourceBefore.data[1]
            ELSE PatternPlane(k, SourceBefore.width, SourceBefore.height)]]

\* C20: the PNG tiff2png writes for a multi-band raster is the stretch of
\* band 1, and stays the same when the other bands are replaced.
C20_OnlyFirstBand ==
    (CropOf("tiff2png") /\ SourceBefore.count >= 2 /\ ret.state = "returned") =>
        /\ fs[call.output_tif].kind = "png"
        /\ call.downsample = 1 => fs[call.output_tif].pixels = StretchOfBand(1)
        /\ \A k \in Patterns :
              tiff2png(OtherBandsReplaced(k), call.input_tif, call.output_tif,
                       call.truncated_value, call.downsample).fs[call.output_tif]
                  = fs[call.output_tif]

\* C20 witness: a two-band raster whose second band stretches to another
\* image than the first; the PNG is the stretch of the first.
C20_Witness ==
    /\ CropOf("tiff2png")
    /\ SourceBefore.count = 2
    /\ ret.state = "returned"
    /\ call.truncated_value = 1
    /\ StretchOfBand(1) # StretchOfBand(2)
    /\ fs[call.output_tif].pixels = StretchOfBand(1)

(***************************************************************************)
(* Statistics claims (specification SpecStatistics).                       *)
(***************************************************************************)
\* Band b of the source has a valid sample.
HasValidSamples(b) == ValidSamples(SourceBefore, b) # <<>>

\* The four statistics of a result are those of an exact pass over every
\* valid pixel of band b of the source.
ExactPass(stats, b) ==
    /\ HasValidSamples(b)
    /\ <<stats.MinValue, stats.MaxValue, stats.MeanValue, stats.StdDev>>
          = [i \in 1..4 |-> Some(ExactStatistics(ValidSamples(SourceBefore, b))[i])]

\* C21: every statistics request of _get_band_statistics, and hence of
\* tiffinfo, demands exact statistics (approx_ok is false), and the
\* statistics reported are those of a full pass over the pixels of the band,
\* never approximate or stored ones.
C21_ExactStatisticsOnly ==
    /\ (CropOf("_get_band_statistics") /\ ret.state = "returned") =>
          /\ ~ret.request.approx_ok
          /\ ExactPass(ret.value.v, call.band)
    /\ (CropOf("tiffinfo") /\ ret.state = "returned") =>
          /\ ExactPass(ret.info.v, 1)
          /\ \A b \in 1..SourceBefore.count : ExactPass(ret.info.v.BandInfo[b], b)

\* The four statistics of a result are all None.
AllNone(stats) ==
    ~stats.MinValue.some /\ ~stats.MaxValue.some /\ ~stats.MeanValue.some /\ ~stats.StdDev.some

\* The four statistics of a result are all present.
AllPresent(stats) ==
    stats.MinValue.some /\ stats.MaxValue.some /\ stats.MeanValue.some /\ stats.StdDev.some

\* C22: tiffinfo completes on a raster with a band without valid samples
\* and reports all four statistics of that band as None; in every result the
\* four statistics of a band are all present or all None.
C22_NoValidSamplesGiveNone ==
    CropOf("tiffinfo") =>
        /\ SourceBefore.data # <<>> => ret.state = "returned"
        /\ ret.state = "returned" =>
              /\ ~HasValidSamples(1) => AllNone(ret.info.v)
              /\ AllNone(ret.info.v) \/ AllPresent(ret.info.v)
              /\ \A b \in 1..SourceBefore.count :
                    /\ ~HasValidSamples(b) => AllNone(ret.info.v.BandInfo[b])
                    /\ AllNone(ret.info.v.BandInfo[b]) \/ AllPresent(ret.info.v.BandInfo[b])

(***************************************************************************)
(* Origin shift claims (specifications SpecCrop and SpecChain).            *)
(***************************************************************************)
\* C23: a crop at xoff = 0 and yoff = 0 writes the six coefficients of the
\* source's geotransform unchanged, whatever the geotransform.
C23_ZeroOffsetKeepsGeoTransform ==
    (CropOf("cutiff") /\ ret.state = "returned" /\ call.xoff = 0 /\ call.yoff = 0) =>
        /\ fs[call.output_tif].kind = "raster"
        /\ \A i \in 1..6 : fs[call.output_tif].gt[i] = SourceBefore.gt[i]

\* C23 witness: a crop at (0, 0) of a skewed raster returned, and its output
\* carries the source's geotransform.
C23_Witness ==
    /\ CropOf("cutiff")
    /\ ret.state = "returned"
    /\ call.xoff = 0 /\ call.yoff = 0
    /\ call.output_tif = "out.tif"
    /\ SourceBefore.gt = Coefficients(<<3, 2, 1, 7, -1, -2>>)
    /\ fs["out.tif"].gt = Coefficients(<<3, 2, 1, 7, -1, -2>>)

\* C24: the crop at xoff = 10, yoff = 20 of a raster with geotransform
\* (0, 1, 0, 0, 0, -1) writes the geotransform (10, 1, 0, -20, 0, -1).
C24_ScenarioOrigin ==
    (CropOf("cutiff") /\ ret.state = "returned"
       /\ SourceBefore.gt = Coefficients(<<0, 1, 0, 0, 0, -1>>)
       /\ call.xoff = 10 /\ call.yoff = 20) =>
        fs[call.output_tif].gt = Coefficients(<<10, 1, 0, -20, 0, -1>>)

\* C24 witness: the crop of the scenario, as the first crop of in.tif.
C24_Witness ==
    /\ CropOf("cutiff")
    /\ ret.state = "returned"
    /\ call.input_tif = "in.tif"
    /\ SourceBefore.gt = Coefficients(<<0, 1, 0, 0, 0, -1>>)
    /\ call.xoff = 10 /\ call.yoff = 20
    /\ fs["out.tif"].gt[1] = Float64(10) /\ fs["out.tif"].gt[4] = Float64(-20)

\* The one crop of the original raster at the summed offsets of the chain,
\* with the window of the last crop.
OneCrop ==
    cutiff(call.original, "in.tif", "out.tif", call.sum_xoff, call.sum_yoff,
           call.xsize, call.ysize)

WithinRounding(x, y) ==
    Float64LessEq(Float64Abs(Float64Sub(x, y)),
                  Float64Mul(Float64Of(FALSE, <<1>>, -50), Float64Abs(y)))

\* Geotransform written agrees with the one one_crop wrote to out.tif: the
\* pixel sizes and skews are equal, the origin is within rounding, and all
\* is equal when the original coefficients are whole numbers.
AgreesUpToRounding(written, one_crop, original) ==
    /\ ~one_crop.raised
    /\ \A i \in {2, 3, 5, 6} : written[i] = one_crop.fs["out.tif"].gt[i]
    /\ \A i \in {1, 4} : WithinRounding(written[i], one_crop.fs["out.tif"].gt[i])
    /\ WholeNumbered(original) => written = one_crop.fs["out.tif"].gt

C25_SourceNeverMutated ==
    (CropOf("cutiff") \/ CropOf("process_tiff_cropping")) =>
        /\ fs[call.input_tif].kind = "raster"
        /\ fs[call.input_tif].data = SourceBefore.data
        /\ fs[call.input_tif].width = SourceBefore.width
        /\ fs[call.input_tif].height = SourceBefore.height
        /\ fs[call.input_tif].count = SourceBefore.count
        /\ fs[call.input_tif].gt = SourceBefore.gt
        /\ fs[call.input_tif].proj = SourceBefore.proj

\* C26: process_tiff_cropping invokes cutiff at most once, and only when the
\* input analysis returned and the validation found the window valid; in
\* every result it returns, output_path is set exactly when the validation
\* is valid, errors are recorded exactly when it is not, and output_analysis
\* is set only with output_path.
C26_CropResultConsistent ==
    call.op = "process_tiff_cropping" =>
        /\ ret.cutiff_calls <= 1
        /\ ret.cutiff_calls = 1 =>
              /\ CanOpen(call.before, call.input_tif)
              /\ CropValidation(tiffinfo(call.before, call.input_tif).info.v,
                                call.xoff, call.yoff, call.xsize, call.ysize).valid
        /\ ret.state = "returned" =>
              /\ ret.result.v.input_analysis.some
              /\ ret.result.v.output_path.some <=> ret.result.v.crop_validation.valid
              /\ ret.result.v.crop_validation.errors # <<>>
                    <=> ~ret.result.v.crop_validation.valid
              /\ ret.result.v.output_analysis.some => ret.result.v.output_path.some
              /\ ret.result.v.output_path.some => ret.cutiff_calls = 1

\* C26 witness: a result for a window beyond the raster, invalid with an
\* error recorded, no output and no invocation of cutiff.
C26_Witness ==
    /\ CropOf("process_tiff_cropping")
    /\ ret.state = "returned"
    /\ WindowExceeds
    /\ ~ret.result.v.crop_validation.valid
    /\ ret.result.v.crop_validation.errors # <<>>
    /\ ~ret.result.v.output_path.some
    /\ ret.cutiff_calls = 0

\* The window has a negative offset, or a zero or negative size.
WindowDegenerate ==
    call.xoff < 0 \/ call.yoff < 0 \/ call.xsize <= 0 \/ call.ysize <= 0

\* C27: the validation of process_tiff_cropping tests the upper edges only:
\* a window with a negative offset or a size of zero or less whose upper
\* edges stay within the raster is valid, with no error recorded, and cutiff
\* is invoked on it as it was given.
C27_OnlyUpperEdgesChecked ==
    (CropOf("process_tiff_cropping") /\ WindowDegenerate /\ ~WindowExceeds) =>
        /\ CropValidation(tiffinfo(call.before, call.input_tif).info.v,
                          call.xoff, call.yoff, call.xsize, call.ysize)
              = [valid |-> TRUE, errors |-> <<>>, warnings |-> <<>>]
        /\ ret.cutiff_calls = 1
        /\ LET c == cutiff(call.before, call.input_tif, call.output_tif,
                           call.xoff, call.yoff, call.xsize, call.ysize)
           IN  /\ ret.state = (IF c.raised THEN "raised" ELSE "returned")
               /\ ret.error = c.error
               /\ SameFiles(fs, c.fs)

\* C27 witness: a window one pixel to the left of the raster and of negative
\* height went to cutiff, which could not read it.
C27_Witness ==
    /\ CropOf("process_tiff_cropping")
    /\ call.xoff = -1 /\ call.xsize = 1
    /\ call.yoff = 0 /\ call.ysize = -1
    /\ ret.cutiff_calls = 1
    /\ ret.state = "raised"
    /\ ret.error = "read"

(***************************************************************************)
(* Resize claim (specification SpecConvert).                               *)
(***************************************************************************)
\* The stretched image is written at the size and with the pixels the
\* downsample factor asks for, and output_png is returned.
WrittenAtRequestedSize ==
    /\ ret.state = "returned"
    /\ ret.value = Some(call.output_tif)
    /\ fs[call.output_tif].kind = "png"
    /\ call.downsample > 1 =>
          /\ fs[call.output_tif].height = SourceBefore.height \div call.downsample
          /\ fs[call.output_tif].width = SourceBefore.width \div call.downsample
          /\ fs[call.output_tif].pixels
                = AreaResize(StretchOfBand(1), SourceBefore.width, SourceBefore.height,
                             SourceBefore.width \div call.downsample,
                             SourceBefore.height \div call.downsample)
    /\ call.downsample <= 1 =>
          /\ fs[call.output_tif].height = SourceBefore.height
          /\ fs[call.output_tif].width = SourceBefore.width
          /\ fs[call.output_tif].pixels = StretchOfBand(1)

\* tiff2png ran on a raster that opens and whose pixels can be read.
ConvertsReadable == CropOf("tiff2png") /\ SourceBefore.data # <<>>

\* The resize target is empty: downsample exceeds the width or the height.
EmptyTarget ==
    /\ call.downsample > 1
    /\ \/ SourceBefore.height \div call.downsample = 0
       \/ SourceBefore.width \div call.downsample = 0

\* C29: the PNG tiff2png writes is the stretched image resized to
\* height // downsample rows and width // downsample columns when
\* downsample > 1, and the stretched image at its size when downsample <= 1
\* (zero and negative values included); the value returned is always
\* output_png.
C29_ResizedWhenDownsampling ==
    ConvertsReadable => WrittenAtRequestedSize

\* C29, amended: the same when downsample <= 1 or both height // downsample
\* and width // downsample are at least 1; when downsample exceeds the width
\* or the height the resize raises, nothing is returned and no file is
\* written.
C29_ResizedUnlessTargetEmpty ==
    ConvertsReadable =>
        /\ ~EmptyTarget => WrittenAtRequestedSize
        /\ EmptyTarget =>
              /\ ret.state = "raised"
              /\ ret.error = "resize"
              /\ fs = call.before

\* C29 witness: the raster of 4 by 2 pixels halved to the PNG of 2 by 1
\* pixels, each the mean of a block of 2 by 2 stretched pixels.
C29_Witness ==
    /\ CropOf("tiff2png")
    /\ ret.state = "returned"
    /\ call.downsample = 2
    /\ call.truncated_value = 0
    /\ SourceBefore.width = 4 /\ SourceBefore.height = 2
    /\ fs[call.output_tif].width = 2 /\ fs[call.output_tif].height = 1
    /\ fs[call.output_tif].pixels = << <<108, 147>> >>

(***************************************************************************)
(* Point reprojection claim (specification SpecPoint).                     *)
(***************************************************************************)
\* The CRS library transforms the point of the call: the projection parses,
\* a transform to EPSG:4326 exists, and the point is not singular.
PointTransforms ==
    /\ call.projection \notin {"", "BAD_WKT", "PROJ_LOCAL"}
    /\ ~(call.projection = "PROJ_SING" /\ Float64(2 * call.x) \in SingularX2)

\* C30: transform_point_to_geographic never raises and returns None exactly
\* when the CRS library fails; projected_to_geographic returns None for a
\* dataset without projection without calling it, and its result otherwise;
\* xy_to_lonlat raises RuntimeError exactly when it returned None and
\* returns its pair unchanged otherwise.
C30_NoneBelowRaiseOnTop ==
    /\ (call.op = "transform_point_to_geographic" /\ ret.state # "pending") =>
          /\ ret.state = "returned"
          /\ ret.value.some <=> PointTransforms
    /\ (call.op = "projected_to_geographic" /\ ret.state # "pending") =>
          /\ ret.state = "returned"
          /\ call.dataset.proj = "" => (ret.value = None /\ ret.calls = 0)
          /\ call.dataset.proj # "" =>
                /\ ret.calls = 1
                /\ ret.value
                      = transform_point_to_geographic(call.x, call.y, call.dataset.proj).value
    /\ (call.op = "xy_to_lonlat" /\ ret.state # "pending") =>
          /\ ret.state = "raised"
                <=> transform_point_to_geographic(call.x, call.y, call.projection).value = None
          /\ ret.state = "raised" => ret.error = "RuntimeError"
          /\ ret.state = "returned" =>
                Some(ret.value)
                   = transform_point_to_geographic(call.x, call.y, call.projection).value

\* C30 witness: xy_to_lonlat raised on a point of the singular line of
\* PROJ_SING, where TransformPoint fails.
C30_Witness ==
    /\ call.op = "xy_to_lonlat"
    /\ call.projection = "PROJ_SING"
    /\ Float64(2 * call.x) \in SingularX2
    /\ ret.state = "raised"
    /\ ret.error = "RuntimeError"

=============================================================================
